---- MODULE Spec2Model ----
(***************************************************************************)
(* The honeypot conversation pipeline: the scam scorer (scam_detector.py), *)
(* the engagement state machine (agent_engine.py), the identifier          *)
(* extractor (intelligence_extractor.py) and the request handler that      *)
(* sequences them over the shared conversation store (app.py).             *)
(*                                                                         *)
(* Text is kept as text: a message is a string, `in` is substring search,  *)
(* .lower() maps characters, and the regular expressions are matched       *)
(* position by position.  Confidence is counted in thousandths (0.15 is    *)
(* 150): every increment and cap of the scorer is a multiple of 0.01, and  *)
(* the float sums agree with the exact ones on every comparison made.      *)
(***************************************************************************)
EXTENDS Integers, Sequences, FiniteSets, TLC

VARIABLES
    conversation_store,  \* app.py: conversation id -> the record object bound to it
    heap,                \* the record objects (dictionaries) created so far
    requests,            \* the requests accepted so far, in order of arrival
    last,                \* what the latest finished request did (observation)
    pc,                  \* per worker thread: position inside handle_message
    req,                 \* per worker thread: the request being processed
    conversation,        \* per worker thread: the record object it holds
    tmp,                 \* per worker thread: values computed but not yet stored
    fn                   \* a pure function under test: inputs, phase, result

vars == <<conversation_store, heap, requests, last, pc, req, conversation, tmp, fn>>

----------------------------------------------------------------------------
(* Strings *)

\* The character at position i (1-based), "" outside the string
Char(s, i) == IF i >= 1 /\ i <= Len(s) THEN SubSeq(s, i, i) ELSE ""

LowerAlphabet == "abcdefghijklmnopqrstuvwxyz"
UpperAlphabet == "ABCDEFGHIJKLMNOPQRSTUVWXYZ"
DigitChars == "0123456789"

InStr(c, str) == \E i \in 1..Len(str) : Char(str, i) = c
PosIn(c, str) == CHOOSE i \in 1..Len(str) : Char(str, i) = c

IsDigit(c) == InStr(c, DigitChars)
IsUpper(c) == InStr(c, UpperAlphabet)
IsLower(c) == InStr(c, LowerAlphabet)
IsAlpha(c) == IsUpper(c) \/ IsLower(c)
IsAlnum(c) == IsAlpha(c) \/ IsDigit(c)
IsWordChar(c) == IsAlnum(c) \/ c = "_"
IsSpace(c) == c = " "

lower_char(c) == IF IsUpper(c) THEN Char(LowerAlphabet, PosIn(c, UpperAlphabet)) ELSE c
upper_char(c) == IF IsLower(c) THEN Char(UpperAlphabet, PosIn(c, LowerAlphabet)) ELSE c

RECURSIVE LowerFrom(_, _)
LowerFrom(s, i) == IF i > Len(s) THEN "" ELSE lower_char(Char(s, i)) \o LowerFrom(s, i + 1)

RECURSIVE UpperFrom(_, _)
UpperFrom(s, i) == IF i > Len(s) THEN "" ELSE upper_char(Char(s, i)) \o UpperFrom(s, i + 1)

\* The scammer messages of the model.
Messages == {
    "hello how are you",
    "thank you",
    "happy shopping",
    "tell me the code",
    "Please send the OTP",
    "enter your atm pin and cvv",
    "what is your password",
    "give me the card number",
    "tell me your account number",
    "Your HDFC account will be blocked due to pending KYC. Update now: http://hdfc-kyc-update.tk",
    "Account: 123456789012, IFSC: SBIN0001234",
    "9876543210@paytm",
    "user@gmail.com",
    "My Aadhar is 1234 5678 9012",
    "Congratulations! You have won Rs 25 lakhs in lucky draw. Pay Rs 5000 processing fee to 9876543210@paytm",
    "urgent: account will be blocked, send otp pin cvv now http://x.tk 9876543210",
    "click the link to claim your reward urgent",
    "share otp, pin, password and cvv" }

\* str.lower() and str.upper(); the results for the model's messages are
\* computed once.
LowerTable == [m \in Messages |-> LowerFrom(m, 1)]
lower(s) == IF s \in Messages THEN LowerTable[s] ELSE LowerFrom(s, 1)
upper(s) == UpperFrom(s, 1)

\* Python's `kw in s`
Contains(s, kw) == \E i \in 1..(Len(s) - Len(kw) + 1) : SubSeq(s, i, i + Len(kw) - 1) = kw

\* any(kw in s for kw in keywords)
ContainsAny(s, keywords) == \E k \in 1..Len(keywords) : Contains(s, keywords[k])

\* sum(1 for kw in keywords if kw in s)
CountIn(s, keywords) == Cardinality({k \in 1..Len(keywords) : Contains(s, keywords[k])})

Min(a, b) == IF a <= b THEN a ELSE b
Max(a, b) == IF a >= b THEN a ELSE b

\* The character at position k is a word character (positions outside the
\* string are not).
WordAt(s, k) == k >= 1 /\ k <= Len(s) /\ IsWordChar(Char(s, k))

\* \b between position k and position k+1
Boundary(s, k) == WordAt(s, k) # WordAt(s, k + 1)

\* Every position a..b exists and holds a digit.
AllDigits(s, a, b) == a >= 1 /\ b <= Len(s) /\ \A k \in a..b : IsDigit(Char(s, k))

\* http[s]?://(?:[a-zA-Z]|[0-9]|[$-_@.&+]|[!*\\(\\),]|(?:%hh))+ : the class is
\* letters, digits, "!" and the ASCII range "$".."_".
UrlPunct == "!$%&'()*+,-./:;<=>?@[]^_"
IsUrlChar(c) == IsAlnum(c) \/ InStr(c, UrlPunct)

\* The position after the scheme when http:// or https:// starts at i, else 0.
SchemeEnd(s, i) ==
    IF i + 6 <= Len(s) /\ SubSeq(s, i, i + 6) = "http://" THEN i + 7
    ELSE IF i + 7 <= Len(s) /\ SubSeq(s, i, i + 7) = "https://" THEN i + 8
    ELSE 0

\* re.search(r'http[s]?://', s)
HasScheme(s) == \E i \in 1..Len(s) : SchemeEnd(s, i) # 0

\* re.search(url pattern, s): a scheme followed by at least one URL character
HasUrl(s) ==
    \E i \in 1..Len(s) :
        /\ SchemeEnd(s, i) # 0
        /\ SchemeEnd(s, i) <= Len(s)
        /\ IsUrlChar(Char(s, SchemeEnd(s, i)))

----------------------------------------------------------------------------
(* Regular expressions of the form  part (.* part)?  where a part is an     *)
(* alternation of literals with optional \b on either side.                 *)

Part(alts, lb, rb) == [alts |-> alts, lb |-> lb, rb |-> rb]
W(alts) == Part(alts, TRUE, TRUE)

AltAt(s, a, i, lb, rb) ==
    /\ i + Len(a) - 1 <= Len(s)
    /\ SubSeq(s, i, i + Len(a) - 1) = a
    /\ (lb => Boundary(s, i - 1))
    /\ (rb => Boundary(s, i + Len(a) - 1))

\* The positions at which a match of the part that starts at i can end.
MatchEnds(s, part, i) ==
    {i + Len(a) - 1 : a \in {x \in part.alts : AltAt(s, x, i, part.lb, part.rb)}}

re_search(parts, s) ==
    IF Len(parts) = 1
    THEN \E i \in 1..Len(s) : MatchEnds(s, parts[1], i) # {}
    ELSE \E i \in 1..Len(s) :
            \E e \in MatchEnds(s, parts[1], i) :
                \E j \in (e + 1)..Len(s) : MatchEnds(s, parts[2], j) # {}

----------------------------------------------------------------------------
(* scam_detector.py: ScamDetector *)

\* The URL pattern has no literal parts: it is matched by HasUrl.
UrlPattern == <<>>

\* self.scam_patterns, in dictionary order; a pattern is a sequence of parts
\* or the URL pattern.
scam_patterns == <<
    [scam_type |-> "financial_fraud", patterns |-> <<
        <<W({"bank", "account", "atm", "credit card", "debit card"}),
          W({"block", "expire", "suspend", "verify", "update", "confirm"})>>,
        <<W({"urgent", "immediate", "action required"}), W({"account", "card", "bank"})>>,
        <<W({"kyc"}), W({"update", "pending", "expire", "verify"})>>,
        <<W({"refund", "cashback", "reward", "prize"}),
          W({"claim", "pending", "won", "congratulations"})>> >>],
    [scam_type |-> "payment_scam", patterns |-> <<
        <<W({"paytm", "phonepe", "gpay", "google pay", "upi"}),
          W({"verify", "update", "expire", "link", "activate"})>>,
        <<W({"send"}), W({"otp", "code", "pin", "password"})>>,
        <<W({"transfer", "payment"}), W({"failed", "pending", "reversed"})>> >>],
    [scam_type |-> "phishing", patterns |-> <<
        <<Part({"click", "tap", "visit"}, FALSE, TRUE), W({"link", "url", "website"})>>,
        <<W({"link"}), W({"verify", "update", "activate", "claim"})>>,
        UrlPattern >>],
    [scam_type |-> "impersonation", patterns |-> <<
        <<W({"dear customer", "valued customer", "account holder"})>>,
        <<W({"from"}), W({"bank", "government", "tax department", "it department"})>>,
        <<W({"rbi", "sebi", "income tax", "gst"})>> >>],
    [scam_type |-> "lottery_prize", patterns |-> <<
        <<W({"won", "winner", "selected", "lucky"}), W({"lottery", "prize", "reward", "contest"})>>,
        <<W({"congratulations"}), W({"win", "won", "selected"})>>,
        <<W({"lakh", "lakhs", "crore", "crores", "million"}),
          W({"rupee", "rupees", "rs", "rs.", "inr"})>> >>],
    [scam_type |-> "job_scam", patterns |-> <<
        <<W({"job", "work from home", "part time", "earn"}), W({"daily", "monthly", "weekly"})>>,
        <<W({"register", "registration"}), W({"fee", "amount", "payment"})>>,
        <<W({"guaranteed", "assured"}), W({"income", "salary", "earning"})>> >>] >>

urgency_keywords == <<"urgent", "immediately", "asap", "now", "today",
    "expire", "expiring", "last chance", "limited time",
    "within 24 hours", "act now", "don't wait">>

credential_requests == <<"otp", "pin", "password", "cvv", "card number",
    "account number", "aadhar", "pan", "date of birth",
    "mother's maiden name", "security code">>

financial_indicators == <<"bank account", "account number", "ifsc", "upi id",
    "upi", "paytm", "phonepe", "gpay", "payment link",
    "transfer money", "send money", "pay now">>

scam_phrases == <<"verify your account", "account will be blocked", "suspended account",
    "claim your reward", "you have won", "confirm your identity",
    "update your kyc", "expired card", "failed transaction",
    "refund pending", "tax refund", "government grant">>

\* re.search(pattern, message_lower, re.IGNORECASE)
PatternMatches(pattern, message_lower) ==
    IF pattern = UrlPattern THEN HasUrl(message_lower) ELSE re_search(pattern, message_lower)

\* The inner loop of analyze: the scam type counts once if any pattern matches.
TypeMatches(entry, message_lower) ==
    \E k \in 1..Len(entry.patterns) : PatternMatches(entry.patterns[k], message_lower)

\* A pattern loop without the break: the scam type is appended once for every
\* pattern of it that matches
RECURSIVE EveryMatchingPattern(_, _)
EveryMatchingPattern(message_lower, k) ==
    IF k > Len(scam_patterns) THEN <<>>
    ELSE LET matching == {j \in 1..Len(scam_patterns[k].patterns) :
                             PatternMatches(scam_patterns[k].patterns[j], message_lower)}
         IN  [j \in 1..Cardinality(matching) |-> scam_patterns[k].scam_type]
             \o EveryMatchingPattern(message_lower, k + 1)

\* scam_types_detected, in table order
RECURSIVE DetectedTypes(_, _)
DetectedTypes(message_lower, k) ==
    IF k > Len(scam_patterns) THEN <<>>
    ELSE (IF TypeMatches(scam_patterns[k], message_lower)
          THEN <<scam_patterns[k].scam_type>> ELSE <<>>)
         \o DetectedTypes(message_lower, k + 1)

\* re.search(r'\b\d{10}\b|\+\d{1,3}[\s-]?\d{10}\b', message)
HasPhoneNumber(message) ==
    \/ \E i \in 1..Len(message) :
          /\ AllDigits(message, i, i + 9)
          /\ Boundary(message, i - 1)
          /\ Boundary(message, i + 9)
    \/ \E i \in 1..Len(message) :
          /\ Char(message, i) = "+"
          /\ \E k \in 1..3 : \E sep \in 0..1 :
                /\ AllDigits(message, i + 1, i + k)
                /\ (sep = 1 => i + k + 1 <= Len(message)
                               /\ (IsSpace(Char(message, i + k + 1))
                                   \/ Char(message, i + k + 1) = "-"))
                /\ AllDigits(message, i + k + sep + 1, i + k + sep + 10)
                /\ Boundary(message, i + k + sep + 10)

\* conversation_history[-3:]
LastThree(h) == SubSeq(h, Max(1, Len(h) - 2), Len(h))

RECURSIVE SumSeq(_)
SumSeq(q) == IF q = <<>> THEN 0 ELSE Head(q) + SumSeq(Tail(q))

PatternIncrement == 150
UrgencyPerHit == 100
UrgencyCap == 300
CredentialPerHit == 150
CredentialCap == 400
FinancialPerHit == 80
FinancialCap == 250
LinkIncrement == 200
PhoneIncrement == 100
PhrasePerHit == 120
PhraseCap == 350
ProgressionThreshold == 2
ProgressionIncrement == 250
ConfidenceCap == 1000
ScamThreshold == 300

Indicator(text, n) == <<text, n>>

\* What analyze reads off the message alone
ScanSignals(message) ==
    LET Signals(message_lower) ==
           [types |-> DetectedTypes(message_lower, 1),
            urgency_count |-> CountIn(message_lower, urgency_keywords),
            credential_count |-> CountIn(message_lower, credential_requests),
            financial_count |-> CountIn(message_lower, financial_indicators),
            has_link |-> HasScheme(message_lower),
            has_phone |-> HasPhoneNumber(message),
            phrase_matches |-> CountIn(message_lower, scam_phrases)]
    IN  Signals(lower(message))

\* The signals of each of the model's messages, computed once
SignalsTable == [m \in Messages |-> ScanSignals(m)]
MessageSignals(message) == SignalsTable[message]

\* credential_progression over the scammer messages among the last three
\* entries of the history
credential_progression(conversation_history) ==
    LET Mentions(recent) ==
           SumSeq([k \in 1..Len(recent) |-> MessageSignals(recent[k].content).credential_count])
    IN  Mentions(SelectSeq(LastThree(conversation_history), LAMBDA m : m.role = "scammer"))

\* A keyword signal that grows with every hit, without a cap of its own
UncappedSignal(count, per_hit, cap) == count * per_hit

\* confidence_score += min(count * per_hit, cap)
CappedSignal(count, per_hit, cap) == Min(count * per_hit, cap)

\* confidence_score before the cap, with the indicators, as analyze builds them
ScoreParts(message, conversation_history) ==
    LET Parts(types, urgency_count, credential_count, financial_count, has_link, has_phone,
              phrase_matches, progressive) ==
        [types |-> types,
         score |->
              PatternIncrement * Len(types)
            + (IF urgency_count > 0 THEN CappedSignal(urgency_count, UrgencyPerHit, UrgencyCap) ELSE 0)
            + (IF credential_count > 0
               THEN CappedSignal(credential_count, CredentialPerHit, CredentialCap) ELSE 0)
            + (IF financial_count > 0
               THEN CappedSignal(financial_count, FinancialPerHit, FinancialCap) ELSE 0)
            + (IF has_link THEN LinkIncrement ELSE 0)
            + (IF has_phone THEN PhoneIncrement ELSE 0)
            + (IF phrase_matches > 0 THEN CappedSignal(phrase_matches, PhrasePerHit, PhraseCap) ELSE 0)
            + (IF progressive THEN ProgressionIncrement ELSE 0),
         indicators |->
              [k \in 1..Len(types) |-> Indicator("Matched pattern", types[k])]
            \o (IF urgency_count > 0
                THEN <<Indicator("Contains urgency language", urgency_count)>> ELSE <<>>)
            \o (IF credential_count > 0
                THEN <<Indicator("Requests sensitive credentials", credential_count)>> ELSE <<>>)
            \o (IF financial_count > 0
                THEN <<Indicator("Contains financial terminology", financial_count)>> ELSE <<>>)
            \o (IF has_link THEN <<Indicator("Contains external link", 0)>> ELSE <<>>)
            \o (IF has_phone THEN <<Indicator("Contains phone number", 0)>> ELSE <<>>)
            \o (IF phrase_matches > 0
                THEN <<Indicator("Contains common scam phrases", phrase_matches)>> ELSE <<>>)
            \o (IF progressive
                THEN <<Indicator("Progressive credential harvesting detected", 0)>> ELSE <<>>)]
        FromSignals(sig, progressive) ==
           Parts(sig.types, sig.urgency_count, sig.credential_count, sig.financial_count,
                 sig.has_link, sig.has_phone, sig.phrase_matches, progressive)
    IN  FromSignals(MessageSignals(message),
                    /\ Len(conversation_history) > 1
                    /\ credential_progression(conversation_history) >= ProgressionThreshold)

\* The sum left as it is, without the min
UncappedConfidence(score) == score

\* confidence_score = min(confidence_score, 1.0)
CapConfidence(score) == Min(score, ConfidenceCap)

\* is_scam = confidence_score >= 0.3
IsScamVerdict(confidence_score) == confidence_score >= ScamThreshold

\* ScamDetector.analyze
analyze(message, conversation_history) ==
    LET Result(parts, confidence_score) ==
           [is_scam |-> IsScamVerdict(confidence_score),
            confidence |-> confidence_score,
            scam_type |-> IF parts.types # <<>> THEN parts.types[1] ELSE "unknown",
            indicators |-> parts.indicators,
            all_detected_types |-> parts.types]
        Capped(parts) == Result(parts, CapConfidence(parts.score))
    IN  Capped(ScoreParts(message, conversation_history))

----------------------------------------------------------------------------
(* agent_engine.py: ScammerEngagementAgent *)

\* Sub-signals shared by the engine and the extractor

\* re.search(r'\b\d{lo,hi}\b', s)
HasDigitRun(s, lo, hi) ==
    \E i \in 1..Len(s) : \E n \in lo..hi :
        /\ Boundary(s, i - 1)
        /\ AllDigits(s, i, i + n - 1)
        /\ Boundary(s, i + n - 1)

RECURSIVE SkipSpaces(_, _)
SkipSpaces(s, i) == IF i <= Len(s) /\ IsSpace(Char(s, i)) THEN SkipSpaces(s, i + 1) ELSE i

\* re.search(r'(?:rs\.?|rupees?|inr|\$)\s*\d+', s): a currency word, optional
\* blanks, a digit
HasAmount(s) ==
    \E i \in 1..Len(s) : \E a \in {"rs", "rs.", "rupee", "rupees", "inr", "$"} :
        /\ AltAt(s, a, i, FALSE, FALSE)
        /\ AllDigits(s, SkipSpaces(s, i + Len(a)), SkipSpaces(s, i + Len(a)))

\* ConversationStage
Stages == {"initial_contact", "confusion", "interest", "verification", "compliance", "extraction"}

\* The keywords of the jump to extraction
sensitive_keywords == <<"otp", "cvv", "pin", "password", "account number", "card number">>

ExtractionJumpTurn == 4

\* _determine_stage without the jump to extraction: the turn-derived stage alone
TurnDerivedStage(turn_count, incoming_message, scam_type) ==
    IF turn_count = 1 THEN "initial_contact"
    ELSE IF turn_count = 2 THEN "confusion"
    ELSE IF turn_count = 3 THEN "interest"
    ELSE IF turn_count = 4 THEN "verification"
    ELSE IF turn_count >= 5 /\ turn_count < 7 THEN "compliance"
    ELSE "extraction"

\* ScammerEngagementAgent._determine_stage
_determine_stage(turn_count, incoming_message, scam_type) ==
    LET message_lower == lower(incoming_message)
    IN  IF turn_count >= ExtractionJumpTurn /\ ContainsAny(message_lower, sensitive_keywords)
        THEN "extraction"
        ELSE IF turn_count = 1 THEN "initial_contact"
        ELSE IF turn_count = 2 THEN "confusion"
        ELSE IF turn_count = 3 THEN "interest"
        ELSE IF turn_count = 4 THEN "verification"
        ELSE IF turn_count >= 5 /\ turn_count < 7 THEN "compliance"
        ELSE "extraction"

\* stage_strategies
stage_strategies(stage) ==
    CASE stage = "initial_contact" -> "initial_confusion"
      [] stage = "confusion" -> "initial_confusion"
      [] stage = "interest" -> "show_interest"
      [] stage = "verification" -> "request_details"
      [] stage = "compliance" -> "gradual_compliance"
      [] stage = "extraction" -> "ask_for_credentials"
      [] OTHER -> "request_details"

LinkOverrideTurn == 3

\* A selection that looks at the credential request before the link cue
CredentialsBeforeLink(stage, incoming_message, turn_count) ==
    LET message_lower == lower(incoming_message)
        base_strategy == stage_strategies(stage)
    IN  IF ContainsAny(message_lower, <<"otp", "code", "pin", "cvv", "password">>)
        THEN (IF stage \in {"compliance", "extraction"}
              THEN "ask_for_credentials" ELSE "request_details")
        ELSE IF /\ ContainsAny(message_lower, <<"http", "link", "click">>)
                /\ turn_count >= LinkOverrideTurn
        THEN "feign_technical_difficulty"
        ELSE IF ContainsAny(message_lower, <<"account number", "ifsc", "upi id", "paytm">>)
        THEN "request_details"
        ELSE IF /\ ContainsAny(message_lower, <<"urgent", "immediately", "now", "expire", "last chance">>)
                /\ stage \in {"interest", "compliance", "extraction"}
        THEN (IF stage = "interest" THEN "show_interest" ELSE "gradual_compliance")
        ELSE base_strategy

\* ScammerEngagementAgent._select_strategy
_select_strategy(stage, incoming_message, turn_count) ==
    LET message_lower == lower(incoming_message)
        base_strategy == stage_strategies(stage)
    IN  IF /\ ContainsAny(message_lower, <<"http", "link", "click">>)
           /\ turn_count >= LinkOverrideTurn
        THEN "feign_technical_difficulty"
        ELSE IF ContainsAny(message_lower, <<"otp", "code", "pin", "cvv", "password">>)
        THEN (IF stage \in {"compliance", "extraction"}
              THEN "ask_for_credentials" ELSE "request_details")
        ELSE IF ContainsAny(message_lower, <<"account number", "ifsc", "upi id", "paytm">>)
        THEN "request_details"
        ELSE IF /\ ContainsAny(message_lower, <<"urgent", "immediately", "now", "expire", "last chance">>)
                /\ stage \in {"interest", "compliance", "extraction"}
        THEN (IF stage = "interest" THEN "show_interest" ELSE "gradual_compliance")
        ELSE base_strategy

HumanBehaviorTurn == 3

\* A perturbation that can fire at any turn count
HumanBehaviorAtAnyTurn(turn_count) == {FALSE, TRUE}

\* ScammerEngagementAgent._should_add_human_behavior: the values random() < 0.20
\* can give at this turn count
_should_add_human_behavior(turn_count) ==
    IF turn_count < HumanBehaviorTurn THEN {FALSE} ELSE {FALSE, TRUE}

\* ScammerEngagementAgent._inject_human_behavior: the values random.choice
\* can give
_inject_human_behavior(strategy) == {"human_confusion", "irrelevant_questions"}

\* self.scam_behaviors: scam type -> emotional_state ("" when the type has no
\* entry)
emotional_state(scam_type) ==
    CASE scam_type = "lottery_prize" -> "excited_but_confused"
      [] scam_type = "banking_kyc" -> "worried_urgent"
      [] scam_type = "upi_payment" -> "cautious_hesitant"
      [] scam_type = "job_offer" -> "curious_skeptical"
      [] scam_type = "tech_support" -> "confused_helpless"
      [] scam_type = "investment" -> "interested_cautious"
      [] OTHER -> ""

\* A reply text is the phrasing set it was drawn from and the set of tone
\* prefixes put before it ("" for none); the draw inside a set is not told
\* apart.
Text(phrasing, prefix) == [phrasing |-> phrasing, prefix |-> prefix]

Template(strategy) == "templates:" \o strategy

_generate_confusion_response(incoming_message, contains_link, contains_amount, scam_type) ==
    IF contains_link THEN "confusion:link"
    ELSE IF contains_amount THEN "confusion:amount"
    ELSE IF scam_type = "lottery_prize" THEN "confusion:lottery_prize"
    ELSE IF scam_type = "banking_kyc" THEN "confusion:banking_kyc"
    ELSE Template("initial_confusion")

_generate_interest_response(message_lower, has_urgency, scam_type) ==
    IF has_urgency THEN "interest:urgency"
    ELSE IF scam_type = "lottery_prize" THEN "interest:lottery_prize"
    ELSE IF scam_type = "job_offer" THEN "interest:job_offer"
    ELSE IF scam_type = "upi_payment" THEN "interest:upi_payment"
    ELSE Template("show_interest")

_generate_details_request(message_lower, asks_for_otp, contains_account, contains_link, contains_phone) ==
    IF asks_for_otp THEN "details:otp"
    ELSE IF contains_account THEN "details:account"
    ELSE IF contains_link THEN "details:link"
    ELSE IF contains_phone THEN "details:phone"
    ELSE Template("request_details")

_generate_technical_difficulty(contains_link) ==
    IF contains_link THEN "technical:link" ELSE Template("feign_technical_difficulty")

_generate_compliance_response(message_lower, asks_for_otp, scam_type) ==
    IF asks_for_otp THEN "compliance:otp"
    ELSE IF Contains(message_lower, "account") \/ Contains(message_lower, "upi")
    THEN "compliance:account"
    ELSE IF \/ Contains(message_lower, "transfer")
            \/ Contains(message_lower, "payment")
            \/ Contains(message_lower, "send")
    THEN "compliance:payment"
    ELSE IF scam_type = "lottery_prize" THEN "compliance:lottery_prize"
    ELSE Template("gradual_compliance")

_generate_credential_question(message_lower, asks_for_otp) ==
    IF asks_for_otp THEN "credentials:otp"
    ELSE IF Contains(message_lower, "card") \/ Contains(message_lower, "cvv")
    THEN "credentials:card"
    ELSE IF Contains(message_lower, "bank") \/ Contains(message_lower, "account")
    THEN "credentials:bank"
    ELSE Template("ask_for_credentials")

\* A renderer that answers every call from the generic request_details
\* phrasing set
FallBackToRequestDetails(strategy, incoming_message, turn_count, scam_type, stage) ==
    Template("request_details")

\* ScammerEngagementAgent._craft_response
_craft_response(strategy, incoming_message, turn_count, scam_type, stage) ==
    LET message_lower == lower(incoming_message)
        contains_link == HasScheme(incoming_message)
        contains_amount == HasAmount(message_lower)
        contains_account == HasDigitRun(incoming_message, 9, 18)
        contains_phone == HasDigitRun(incoming_message, 10, 10)
        asks_for_otp == ContainsAny(message_lower, <<"otp", "code", "verification code", "pin">>)
        has_urgency == ContainsAny(message_lower, <<"urgent", "immediately", "expire", "block", "suspend">>)
    IN  CASE strategy = "initial_confusion" ->
               _generate_confusion_response(incoming_message, contains_link, contains_amount, scam_type)
          [] strategy = "show_interest" ->
               _generate_interest_response(message_lower, has_urgency, scam_type)
          [] strategy = "request_details" ->
               _generate_details_request(message_lower, asks_for_otp, contains_account,
                                         contains_link, contains_phone)
          [] strategy = "feign_technical_difficulty" -> _generate_technical_difficulty(contains_link)
          [] strategy = "gradual_compliance" ->
               _generate_compliance_response(message_lower, asks_for_otp, scam_type)
          [] strategy = "ask_for_credentials" ->
               _generate_credential_question(message_lower, asks_for_otp)
          [] strategy = "human_confusion" -> Template("human_confusion")
          [] strategy = "irrelevant_questions" -> Template("irrelevant_questions")
          [] OTHER -> Template("request_details")

\* ScammerEngagementAgent._add_scam_specific_tone: the prefix sets the reply can
\* come back with
_add_scam_specific_tone(response, scam_type, stage) ==
    IF stage \notin {"interest", "compliance"} THEN {Text(response, "")}
    ELSE IF emotional_state(scam_type) = "" THEN {Text(response, "")}
    ELSE IF emotional_state(scam_type) \in {"excited_but_confused", "worried_urgent", "cautious_hesitant"}
    THEN {Text(response, ""), Text(response, emotional_state(scam_type))}
    ELSE {Text(response, "")}

\* A turn count that is the number of scammer messages
ScammerTurnCount(conversation_history) ==
    Len(SelectSeq(conversation_history, LAMBDA m : m.role = "scammer"))

\* turn_count = len([m for m in conversation_history if m['role'] == 'agent'])
engine_turn_count(conversation_history) ==
    Len(SelectSeq(conversation_history, LAMBDA m : m.role = "agent"))

\* An engine that reports the stage of the strategy it ends up emitting: a
\* perturbed reply is reported as confusion
StageFollowsPerturbation(incoming_message, conversation_history, scam_type) ==
    LET turn_count == engine_turn_count(conversation_history)
        stage == _determine_stage(turn_count, incoming_message, scam_type)
        selected == _select_strategy(stage, incoming_message, turn_count)
        strategies == {IF b THEN h ELSE selected :
                          b \in _should_add_human_behavior(turn_count),
                          h \in _inject_human_behavior(selected)}
    IN  UNION {
          {[message |-> t, strategy |-> strategy,
            stage |-> IF strategy = selected THEN stage ELSE "confusion",
            turn_count |-> turn_count, selected |-> selected] :
              t \in _add_scam_specific_tone(
                        _craft_response(strategy, incoming_message, turn_count, scam_type, stage),
                        scam_type, stage)} :
          strategy \in strategies}

\* ScammerEngagementAgent.generate_response: every result the random draws
\* allow
generate_response(incoming_message, conversation_history, scam_type) ==
    LET turn_count == engine_turn_count(conversation_history)
        stage == _determine_stage(turn_count, incoming_message, scam_type)
        selected == _select_strategy(stage, incoming_message, turn_count)
        strategies == {IF b THEN h ELSE selected :
                          b \in _should_add_human_behavior(turn_count),
                          h \in _inject_human_behavior(selected)}
    IN  UNION {
          {[message |-> t, strategy |-> strategy, stage |-> stage,
            turn_count |-> turn_count, selected |-> selected] :
              t \in _add_scam_specific_tone(
                        _craft_response(strategy, incoming_message, turn_count, scam_type, stage),
                        scam_type, stage)} :
          strategy \in strategies}

\* ScammerEngagementAgent.generate_initial_response
generate_initial_response(message) == Text("initial_response", "")

----------------------------------------------------------------------------
(* intelligence_extractor.py: IntelligenceExtractor *)

\* The character classes of self.patterns
InClass(class, c) ==
    CASE class = "digit" -> IsDigit(c)
      [] class = "alpha" -> IsAlpha(c)
      [] class = "upper" -> IsUpper(c)
      [] class = "upper_or_digit" -> IsUpper(c) \/ IsDigit(c)
      [] class = "upi_local" -> IsAlnum(c) \/ InStr(c, "._-")
      [] class = "email_local" -> IsAlnum(c) \/ InStr(c, "._%+-")
      [] class = "email_domain" -> IsAlnum(c) \/ InStr(c, ".-")
      [] class = "tld" -> IsAlpha(c) \/ c = "|"
      [] class = "url" -> IsUrlChar(c)
      [] class = "not_slash" -> c # "/"
      [] OTHER -> FALSE

\* The last position of the longest run of the class that starts at i
\* (i - 1 when the character at i is not in the class)
RECURSIVE RunEnd(_, _, _)
RunEnd(s, i, class) ==
    IF i <= Len(s) /\ InClass(class, Char(s, i)) THEN RunEnd(s, i + 1, class) ELSE i - 1

AllIn(s, a, b, class) == a >= 1 /\ b <= Len(s) /\ \A k \in a..b : InClass(class, Char(s, k))

\* [6-9]\d{9}\b at j: its end, or 0
PhoneCoreEnd(s, j) ==
    IF InStr(Char(s, j), "6789") /\ AllDigits(s, j + 1, j + 9) /\ Boundary(s, j + 9)
    THEN j + 9 ELSE 0

\* [A-Za-z0-9.-]+\.[A-Z|a-z]{2,}\b after the "@" at position at: the ends
\* <<k, e>> the pattern allows, k the position of the dot before the suffix
EmailSplits(s, at) ==
    {<<k, e>> \in ((at + 2)..RunEnd(s, at + 1, "email_domain")) \X ((at + 4)..Len(s)) :
        /\ Char(s, k) = "."
        /\ e >= k + 2
        /\ AllIn(s, k + 1, e, "tld")
        /\ Boundary(s, e)}

\* The split the greedy quantifiers take first: the last dot, then the longest
\* suffix
EmailEnd(s, at) ==
    LET Greatest(xs) == CHOOSE x \in xs : \A y \in xs : y <= x
        Suffix(splits, k) == Greatest({q[2] : q \in {r \in splits : r[1] = k}})
        Split(splits) == IF splits = {} THEN 0
                         ELSE Suffix(splits, Greatest({q[1] : q \in splits}))
    IN  Split(EmailSplits(s, at))

\* The end of the match of the kind's pattern that starts at i, or 0
MatchEnd(kind, s, i) ==
    CASE kind = "bank_account" ->
            LET e == RunEnd(s, i, "digit")
            IN  IF Boundary(s, i - 1) /\ e - i + 1 >= 9 /\ e - i + 1 <= 18 /\ Boundary(s, e)
                THEN e ELSE 0
      [] kind = "ifsc_code" ->
            IF /\ Boundary(s, i - 1)
               /\ AllIn(s, i, i + 3, "upper")
               /\ Char(s, i + 4) = "0"
               /\ AllIn(s, i + 5, i + 10, "upper_or_digit")
               /\ Boundary(s, i + 10)
            THEN i + 10 ELSE 0
      [] kind = "upi_id" ->
            LET Handle(l, d) == IF /\ Boundary(s, i - 1)
                                   /\ l >= i
                                   /\ Char(s, l + 1) = "@"
                                   /\ d >= l + 2
                                   /\ Boundary(s, d)
                                THEN d ELSE 0
                Local(l) == Handle(l, RunEnd(s, l + 2, "alpha"))
            IN  Local(RunEnd(s, i, "upi_local"))
      [] kind = "phone_number" ->
            LET Pick(separated, prefixed, bare) ==
                   IF ~Boundary(s, i - 1) THEN 0
                   ELSE IF /\ i + 3 <= Len(s)
                           /\ SubSeq(s, i, i + 2) = "+91"
                           /\ (IsSpace(Char(s, i + 3)) \/ Char(s, i + 3) = "-")
                           /\ separated # 0
                   THEN separated
                   ELSE IF i + 2 <= Len(s) /\ SubSeq(s, i, i + 2) = "+91" /\ prefixed # 0
                   THEN prefixed
                   ELSE bare
            IN  Pick(PhoneCoreEnd(s, i + 4), PhoneCoreEnd(s, i + 3), PhoneCoreEnd(s, i))
      [] kind = "url" ->
            LET Rest(scheme, e) == IF scheme # 0 /\ e >= scheme THEN e ELSE 0
                Scheme(scheme) == Rest(scheme, RunEnd(s, scheme, "url"))
            IN  Scheme(SchemeEnd(s, i))
      [] kind = "email" ->
            LET Local(l) == IF Boundary(s, i - 1) /\ l >= i /\ Char(s, l + 1) = "@"
                            THEN EmailEnd(s, l + 1) ELSE 0
            IN  Local(RunEnd(s, i, "email_local"))
      [] kind = "pan_card" ->
            IF /\ Boundary(s, i - 1)
               /\ AllIn(s, i, i + 4, "upper")
               /\ AllDigits(s, i + 5, i + 8)
               /\ IsUpper(Char(s, i + 9))
               /\ Boundary(s, i + 9)
            THEN i + 9 ELSE 0
      [] kind = "aadhar" ->
            LET Groups(j, k) == IF /\ Boundary(s, i - 1)
                                   /\ AllDigits(s, i, i + 3)
                                   /\ AllDigits(s, j, j + 3)
                                   /\ AllDigits(s, k, k + 3)
                                   /\ Boundary(s, k + 3)
                                THEN k + 3 ELSE 0
                Second(j) == Groups(j, IF IsSpace(Char(s, j + 4)) THEN j + 5 ELSE j + 4)
            IN  Second(IF IsSpace(Char(s, i + 4)) THEN i + 5 ELSE i + 4)
      [] OTHER -> 0

\* re.findall(pattern, s): the matches from left to right, not overlapping,
\* each as its first and last position
RECURSIVE FindAll(_, _, _)
FindAll(kind, s, pos) ==
    LET First(ends, i) == <<[first |-> i, last |-> ends[i]]>> \o FindAll(kind, s, ends[i] + 1)
        Starts(ends, starts) ==
           IF starts = {} THEN <<>>
           ELSE First(ends, CHOOSE i \in starts : \A j \in starts : i <= j)
        Ends(ends) == Starts(ends, {i \in pos..Len(s) : ends[i] # 0})
    IN  Ends([i \in pos..Len(s) |-> MatchEnd(kind, s, i)])

\* The matched texts
findall(kind, s) ==
    LET Texts(spans) == [k \in 1..Len(spans) |-> SubSeq(s, spans[k].first, spans[k].last)]
    IN  Texts(FindAll(kind, s, 1))

SnippetLength == 50

\* message[:50] + '...' if len(message) > 50 else message
extracted_from(message) ==
    IF Len(message) > SnippetLength THEN SubSeq(message, 1, SnippetLength) \o "..." ELSE message

\* self.upi_providers
upi_providers == <<"paytm", "phonepe", "googlepay", "gpay", "bhim",
    "ybl", "okhdfcbank", "oksbi", "okicici", "okaxis">>

\* s.find(sub) as a 1-based position, 0 when absent
Find(s, sub) ==
    IF Contains(s, sub)
    THEN CHOOSE i \in 1..(Len(s) - Len(sub) + 1) :
            /\ SubSeq(s, i, i + Len(sub) - 1) = sub
            /\ \A j \in 1..(i - 1) : SubSeq(s, j, j + Len(sub) - 1) # sub
    ELSE 0

\* re.sub(r'[\s-]', '', s) and re.sub(r'[,\s]', '', s): s without the characters
\* of drop
RECURSIVE Strip(_, _)
Strip(s, drop) ==
    IF Len(s) = 0 THEN ""
    ELSE (IF InStr(Char(s, 1), drop) THEN "" ELSE Char(s, 1)) \o Strip(SubSeq(s, 2, Len(s)), drop)

MaxUpiLocal == 20

_extract_bank_accounts(message) ==
    LET Accounts(kept) ==
           [k \in 1..Len(kept) |->
               [account_number |-> kept[k], length |-> Len(kept[k]),
                extracted_from |-> extracted_from(message)]]
    IN  Accounts(SelectSeq(findall("bank_account", message),
                           LAMBDA m : 9 <= Len(m) /\ Len(m) <= 18))

_extract_ifsc_codes(message) ==
    LET Codes(matches) ==
           [k \in 1..Len(matches) |->
               [ifsc_code |-> matches[k],
                bank_code |-> SubSeq(matches[k], 1, 4),
                branch_code |-> SubSeq(matches[k], 6, Len(matches[k])),
                extracted_from |-> extracted_from(message)]]
    IN  Codes(findall("ifsc_code", upper(message)))

\* match.split('@')[0] and match.split('@')[1]
LocalPart(match) == SubSeq(match, 1, Find(match, "@") - 1)
DomainPart(match) == SubSeq(match, Find(match, "@") + 1, Len(match))

IsUpiMatch(match) ==
    \/ ContainsAny(lower(DomainPart(match)), upi_providers)
    \/ (Len(LocalPart(match)) <= MaxUpiLocal /\ ~Contains(DomainPart(match), "."))

_extract_upi_ids(message) ==
    LET Ids(kept) ==
           [k \in 1..Len(kept) |->
               [upi_id |-> kept[k], provider |-> DomainPart(kept[k]),
                extracted_from |-> extracted_from(message)]]
    IN  Ids(SelectSeq(findall("upi_id", message), IsUpiMatch))

_extract_phone_numbers(message) ==
    LET Numbers(matches) ==
           [k \in 1..Len(matches) |->
               [phone_number |-> Strip(matches[k], " -"), formatted |-> matches[k],
                extracted_from |-> extracted_from(message)]]
    IN  Numbers(findall("phone_number", message))

\* re.search(r'\d{1,3}\.\d{1,3}\.\d{1,3}\.\d{1,3}', url)
HasIpLiteral(url) ==
    \E i \in 1..Len(url) : \E a \in 1..3 : \E b \in 1..3 :
        /\ IsDigit(Char(url, i))
        /\ Char(url, i + 1) = "."
        /\ AllDigits(url, i + 2, i + 1 + a)
        /\ Char(url, i + 2 + a) = "."
        /\ AllDigits(url, i + 3 + a, i + 2 + a + b)
        /\ Char(url, i + 3 + a + b) = "."
        /\ IsDigit(Char(url, i + 4 + a + b))

suspicious_tlds == <<".xyz", ".top", ".club", ".tk", ".ml", ".ga", ".cf", ".gq">>
shorteners == <<"bit.ly", "tinyurl", "goo.gl", "t.co", "ow.ly">>
legit_domains == <<"paytm", "phonepe", "googlepay", "sbi", "hdfc", "icici", "axis">>

\* The reasons of the brand loop, in list order
RECURSIVE BrandReasons(_, _)
BrandReasons(url_lower, k) ==
    IF k > Len(legit_domains) THEN <<>>
    ELSE (IF /\ Contains(url_lower, legit_domains[k])
             /\ ~Contains(url_lower, legit_domains[k] \o ".com")
             /\ ~Contains(url_lower, legit_domains[k] \o ".in")
          THEN <<"Potential " \o legit_domains[k] \o " phishing">> ELSE <<>>)
         \o BrandReasons(url_lower, k + 1)

\* A URL analysis that does not look at the top-level domain
WithoutTldCheck(url) ==
    LET Verdict(reasons) == [is_suspicious |-> reasons # <<>>, reasons |-> reasons]
    IN  Verdict(BrandReasons(LowerFrom(url, 1), 1))

_analyze_url_suspiciousness(url) ==
    LET Verdict(reasons) == [is_suspicious |-> reasons # <<>>, reasons |-> reasons]
        Reasons(url_lower) ==
           Verdict(   (IF ContainsAny(url_lower, suspicious_tlds)
                       THEN <<"Suspicious TLD">> ELSE <<>>)
                   \o (IF HasIpLiteral(url) THEN <<"Uses IP address">> ELSE <<>>)
                   \o (IF ContainsAny(url_lower, shorteners) THEN <<"URL shortener">> ELSE <<>>)
                   \o BrandReasons(url_lower, 1))
    IN  Reasons(lower(url))

\* re.search(r'://([^/]+)', url).group(1), 'unknown' without a match
_extract_domain(url) ==
    LET Host(p, e) == IF p # 0 /\ e >= p + 3 THEN SubSeq(url, p + 3, e) ELSE "unknown"
        After(p) == Host(p, RunEnd(url, p + 3, "not_slash"))
    IN  After(Find(url, "://"))

_extract_urls(message) ==
    LET Entry(url, analysis) ==
           [url |-> url,
            domain |-> _extract_domain(url),
            is_suspicious |-> analysis,
            suspicion_reasons |-> analysis.reasons,
            extracted_from |-> extracted_from(message)]
        Urls(matches) ==
           [k \in 1..Len(matches) |->
               Entry(matches[k], _analyze_url_suspiciousness(matches[k]))]
    IN  Urls(findall("url", message))

_extract_emails(message) ==
    LET Emails(kept) ==
           [k \in 1..Len(kept) |->
               [email |-> kept[k], domain |-> DomainPart(kept[k]),
                extracted_from |-> extracted_from(message)]]
    IN  Emails(SelectSeq(findall("email", message),
                         LAMBDA m : ~ContainsAny(lower(m), upi_providers)))

_extract_pan_cards(message) ==
    LET Cards(matches) ==
           [k \in 1..Len(matches) |->
               [pan_number |-> matches[k], extracted_from |-> extracted_from(message)]]
    IN  Cards(findall("pan_card", upper(message)))

AadharMask == "XXXX XXXX "

_extract_aadhar(message) ==
    LET Masked(matches) ==
           [k \in 1..Len(matches) |->
               [aadhar_masked |->
                   AadharMask \o SubSeq(matches[k], Len(matches[k]) - 3, Len(matches[k])),
                extracted_from |-> extracted_from(message)]]
    IN  Masked(findall("aadhar", message))

payment_apps == <<"paytm", "phonepe", "gpay", "google pay", "bhim", "amazon pay">>

\* The apps the message names, in list order
_extract_payment_apps(message) ==
    SelectSeq(payment_apps, LAMBDA app : Contains(lower(message), app))

\* (?:rs\.?|rupees?|inr) at i, ignoring case: the position after the currency
\* word the alternation takes first among those a number can follow, or 0
CurrencyEnd(s, i) ==
    LET follows(a) == /\ i + Len(a) - 1 <= Len(s)
                      /\ lower(SubSeq(s, i, i + Len(a) - 1)) = a
                      /\ IsDigit(Char(s, SkipSpaces(s, i + Len(a))))
    IN  IF follows("rs.") THEN i + 3
        ELSE IF follows("rs") THEN i + 2
        ELSE IF follows("rupees") THEN i + 6
        ELSE IF follows("rupee") THEN i + 5
        ELSE IF follows("inr") THEN i + 3
        ELSE 0

\* (?:,\d{3})* after position e
RECURSIVE CommaGroups(_, _)
CommaGroups(s, e) ==
    IF Char(s, e + 1) = "," /\ AllDigits(s, e + 2, e + 4) THEN CommaGroups(s, e + 4) ELSE e

\* (\d+(?:,\d{3})*(?:\.\d{2})?) at j: its last position
NumberEnd(s, j) ==
    LET Decimals(e) == IF Char(s, e + 1) = "." /\ AllDigits(s, e + 2, e + 3) THEN e + 3 ELSE e
    IN  Decimals(CommaGroups(s, RunEnd(s, j, "digit")))

\* re.findall(self.patterns['amount'], message, re.IGNORECASE): the captured
\* numbers, left to right
RECURSIVE FindAmounts(_, _)
FindAmounts(s, pos) ==
    LET Number(j, e) == <<SubSeq(s, j, e)>> \o FindAmounts(s, e + 1)
        Digits(j) == Number(j, NumberEnd(s, j))
        Starts(ends, starts) ==
           IF starts = {} THEN <<>>
           ELSE Digits(SkipSpaces(s, ends[CHOOSE i \in starts : \A j \in starts : i <= j]))
        Ends(ends) == Starts(ends, {i \in pos..Len(s) : ends[i] # 0})
    IN  Ends([i \in pos..Len(s) |-> CurrencyEnd(s, i)])

\* int(digits)
RECURSIVE ParseInt(_)
ParseInt(digits) ==
    IF Len(digits) = 0 THEN 0
    ELSE 10 * ParseInt(SubSeq(digits, 1, Len(digits) - 1))
         + (PosIn(Char(digits, Len(digits)), DigitChars) - 1)

\* float(amount_str), in hundredths
AmountValue(amount_str) ==
    IF Contains(amount_str, ".")
    THEN 100 * ParseInt(SubSeq(amount_str, 1, Find(amount_str, ".") - 1))
         + ParseInt(SubSeq(amount_str, Find(amount_str, ".") + 1, Len(amount_str)))
    ELSE 100 * ParseInt(amount_str)

ContextWindow == 30

_extract_amount_context(message, amount) ==
    LET Window(pos, start, end) ==
           IF pos = -1 THEN ""
           ELSE (IF start > 0 THEN "..." ELSE "")
                \o SubSeq(message, start + 1, end)
                \o (IF end < Len(message) THEN "..." ELSE "")
        Around(pos) == Window(pos, Max(0, pos - ContextWindow),
                              Min(Len(message), pos + Len(amount) + ContextWindow))
    IN  Around(Find(lower(message), lower(amount)) - 1)

_extract_amounts(message) ==
    LET Amounts(matches) ==
           [k \in 1..Len(matches) |->
               [amount |-> AmountValue(Strip(matches[k], ", ")),
                formatted |-> matches[k],
                context |-> _extract_amount_context(message, matches[k])]]
    IN  Amounts(FindAmounts(message, 1))

\* The list kinds of an intelligence dictionary and the key that identifies a
\* finding of the kinds that are deduplicated
ListKinds == {"bank_accounts", "ifsc_codes", "upi_ids", "phone_numbers", "phishing_urls",
              "email_addresses", "amounts_mentioned", "pan_cards", "aadhar_numbers",
              "payment_apps"}

DedupKey(kind, item) ==
    CASE kind = "bank_accounts" -> item.account_number
      [] kind = "ifsc_codes" -> item.ifsc_code
      [] kind = "upi_ids" -> item.upi_id
      [] kind = "phone_numbers" -> item.phone_number
      [] kind = "phishing_urls" -> item.url
      [] kind = "email_addresses" -> item.email

DedupKinds == {"bank_accounts", "ifsc_codes", "upi_ids", "phone_numbers", "phishing_urls",
               "email_addresses"}

\* One loop of _deduplicate_intelligence: keep an item when its key was not
\* seen before
RECURSIVE Unique(_, _, _)
Unique(kind, items, seen) ==
    IF items = <<>> THEN <<>>
    ELSE IF DedupKey(kind, Head(items)) \in seen
    THEN Unique(kind, Tail(items), seen)
    ELSE <<Head(items)>> \o Unique(kind, Tail(items), seen \cup {DedupKey(kind, Head(items))})

\* An extractor that keeps every finding it collected
NoDeduplication(intelligence) == intelligence

\* IntelligenceExtractor._deduplicate_intelligence
_deduplicate_intelligence(intelligence) ==
    [key \in DOMAIN intelligence |->
        IF key \in DedupKinds THEN Unique(key, intelligence[key], {}) ELSE intelligence[key]]

CountSuspicious(urls) ==
    Len(SelectSeq(urls, LAMBDA u : u.is_suspicious.is_suspicious))

AccountWeight == 20
UpiWeight == 15
IfscWeight == 10
PhoneWeight == 8
UrlWeight == 12
EmailWeight == 5
AmountWeight == 3
QualityCap == 100

\* A quality score without the clamp
UncappedQualityScore(intelligence) ==
      Len(intelligence["bank_accounts"]) * AccountWeight
    + Len(intelligence["upi_ids"]) * UpiWeight
    + Len(intelligence["ifsc_codes"]) * IfscWeight
    + Len(intelligence["phone_numbers"]) * PhoneWeight
    + Len(intelligence["phishing_urls"]) * UrlWeight
    + Len(intelligence["email_addresses"]) * EmailWeight
    + Len(intelligence["amounts_mentioned"]) * AmountWeight

\* IntelligenceExtractor._calculate_quality_score
_calculate_quality_score(intelligence) ==
    Min(  Len(intelligence["bank_accounts"]) * AccountWeight
        + Len(intelligence["upi_ids"]) * UpiWeight
        + Len(intelligence["ifsc_codes"]) * IfscWeight
        + Len(intelligence["phone_numbers"]) * PhoneWeight
        + Len(intelligence["phishing_urls"]) * UrlWeight
        + Len(intelligence["email_addresses"]) * EmailWeight
        + Len(intelligence["amounts_mentioned"]) * AmountWeight,
        QualityCap)

\* IntelligenceExtractor._generate_summary
_generate_summary(intelligence) ==
    [total_bank_accounts |-> Len(intelligence["bank_accounts"]),
     total_ifsc_codes |-> Len(intelligence["ifsc_codes"]),
     total_upi_ids |-> Len(intelligence["upi_ids"]),
     total_phone_numbers |-> Len(intelligence["phone_numbers"]),
     total_phishing_urls |-> Len(intelligence["phishing_urls"]),
     total_suspicious_urls |-> CountSuspicious(intelligence["phishing_urls"]),
     total_email_addresses |-> Len(intelligence["email_addresses"]),
     total_amounts_mentioned |-> Len(intelligence["amounts_mentioned"]),
     total_pan_cards |-> Len(intelligence["pan_cards"]),
     total_aadhar_numbers |-> Len(intelligence["aadhar_numbers"]),
     total_payment_apps |-> Len(intelligence["payment_apps"]),
     intelligence_quality_score |-> _calculate_quality_score(intelligence)]

\* What the ten _extract_* calls append for one scammer message
ScanMessage(message) ==
    [bank_accounts |-> _extract_bank_accounts(message),
     ifsc_codes |-> _extract_ifsc_codes(message),
     upi_ids |-> _extract_upi_ids(message),
     phone_numbers |-> _extract_phone_numbers(message),
     phishing_urls |-> _extract_urls(message),
     email_addresses |-> _extract_emails(message),
     amounts_mentioned |-> _extract_amounts(message),
     pan_cards |-> _extract_pan_cards(message),
     aadhar_numbers |-> _extract_aadhar(message),
     payment_apps |-> _extract_payment_apps(message)]

\* The scan of each of the model's messages, computed once
FindingsTable == [m \in Messages |-> ScanMessage(m)]
MessageFindings(message) == FindingsTable[message]

\* payment_apps is appended to only when the app is not in the list yet
AppendNew(list, apps) ==
    list \o SelectSeq(apps, LAMBDA app : \A k \in 1..Len(list) : list[k] # app)

EmptyFindings == [kind \in ListKinds |-> <<>>]

\* The loop of extract over the history: the lists before deduplication
RECURSIVE Collect(_, _)
Collect(conversation_history, acc) ==
    IF conversation_history = <<>> THEN acc
    ELSE IF Head(conversation_history).role # "scammer"
    THEN Collect(Tail(conversation_history), acc)
    ELSE LET Added(found) == [kind \in ListKinds |->
                                 IF kind = "payment_apps"
                                 THEN AppendNew(acc[kind], found[kind])
                                 ELSE acc[kind] \o found[kind]]
         IN  Collect(Tail(conversation_history),
                     Added(MessageFindings(Head(conversation_history).content)))

ScammerCount(conversation_history) ==
    Len(SelectSeq(conversation_history, LAMBDA m : m.role = "scammer"))

\* An intelligence dictionary: the list kinds, extraction_metadata and summary
WithKey(f, key, value) == [k \in DOMAIN f \cup {key} |-> IF k = key THEN value ELSE f[k]]

\* An extraction that reads the latest scammer message only
ExtractLatestOnly(conversation_history) ==
    LET Summarised(intelligence) ==
           WithKey(intelligence, "summary", _generate_summary(intelligence))
        Latest(scammer) == IF scammer = <<>> THEN <<>> ELSE <<scammer[Len(scammer)]>>
    IN  Summarised(_deduplicate_intelligence(
           WithKey(Collect(Latest(SelectSeq(conversation_history,
                                            LAMBDA m : m.role = "scammer")),
                           EmptyFindings),
                   "extraction_metadata",
                   [total_messages_analyzed |-> Len(conversation_history),
                    scammer_messages_count |-> ScammerCount(conversation_history)])))

\* IntelligenceExtractor.extract (extraction_timestamp left out)
extract(conversation_history) ==
    LET Summarised(intelligence) ==
           WithKey(intelligence, "summary", _generate_summary(intelligence))
    IN  Summarised(_deduplicate_intelligence(
           WithKey(Collect(conversation_history, EmptyFindings),
                   "extraction_metadata",
                   [total_messages_analyzed |-> Len(conversation_history),
                    scammer_messages_count |-> ScammerCount(conversation_history)])))

----------------------------------------------------------------------------
(* app.py: handle_message over conversation_store *)

ConvIds == {"c1", "c2"}
Threads == {"t1", "t2"}

\* The messages the handler is driven with
OrchMessages == {
    "hello how are you",
    "Please send the OTP",
    "Your HDFC account will be blocked due to pending KYC. Update now: http://hdfc-kyc-update.tk",
    "Account: 123456789012, IFSC: SBIN0001234" }

ConcMessages == {
    "Please send the OTP",
    "Account: 123456789012, IFSC: SBIN0001234" }

MaxRequests == 4
MaxConcRequests == 2

\* conversation_id not in conversation_store
NoObject == 0

\* dict.get(key, default), d[key] = value, d.update(e)
Get(d, key, default) == IF key \in DOMAIN d THEN d[key] ELSE default
Update(d, e) == [k \in DOMAIN d \cup DOMAIN e |-> IF k \in DOMAIN e THEN e[k] ELSE d[k]]

\* {}
EmptyDict == [k \in {} |-> 0]

\* The record handle_message creates for a new conversation id (start_time
\* left out)
NewConversation ==
    [messages |-> <<>>,
     scam_detected |-> FALSE,
     agent_activated |-> FALSE,
     extracted_intelligence |-> EmptyDict,
     turn_count |-> 0]

\* A handler that puts the incoming message at the head of the list
PrependIncoming(c, incoming_message) ==
    WithKey(c, "messages",
            <<[role |-> "scammer", content |-> incoming_message]>> \o c["messages"])

\* conversation['messages'].append({'role': 'scammer', ...})
AppendIncoming(c, incoming_message) ==
    WithKey(c, "messages",
            Append(c["messages"], [role |-> "scammer", content |-> incoming_message]))

\* A handler that leaves turn_count as created
TurnCountNotAdvanced(c, read) == c

\* conversation['turn_count'] += 1, from the value read
StoreTurnCount(c, read) == WithKey(c, "turn_count", read + 1)

\* A handler that runs the scorer on every turn
ScorerAlwaysRuns(c) == TRUE

\* Step 1: whether the scorer runs
ScorerRuns(c) == ~c["scam_detected"]

\* Step 1, inside the if: run the scorer and record a positive verdict
ApplyAnalysis(c, incoming_message) ==
    LET Record(scam_analysis) ==
           IF scam_analysis.is_scam
           THEN WithKey(WithKey(WithKey(WithKey(c,
                  "scam_detected", TRUE),
                  "scam_type", scam_analysis.scam_type),
                  "confidence", scam_analysis.confidence),
                  "indicators", scam_analysis.indicators)
           ELSE c
    IN  Record(analyze(incoming_message, c["messages"]))

\* A handler that stores the verdict of the latest message in the flag
DetectScamLatest(c, incoming_message) ==
    WithKey(c, "scam_detected", analyze(incoming_message, c["messages"]).is_scam)

\* Step 1: detect scam intent
DetectScam(c, incoming_message) ==
    IF ScorerRuns(c) THEN ApplyAnalysis(c, incoming_message) ELSE c

NoEngine == [message |-> Text("", ""), strategy |-> "", stage |-> "none",
             turn_count |-> -1, selected |-> ""]

\* A handler that hands every turn to the engine
AlwaysEngage(c, incoming_message) ==
    {[record |-> WithKey(c, "agent_activated", TRUE),
      response_message |-> r.message,
      strategy |-> r.strategy,
      engine |-> r] :
        r \in generate_response(incoming_message, c["messages"],
                                Get(c, "scam_type", "unknown"))}

\* Step 2: the replies the handler can produce, each with the record after it
\* and what the engine returned (NoEngine on the neutral path)
GenerateReply(c, incoming_message) ==
    IF c["scam_detected"]
    THEN {[record |-> WithKey(c, "agent_activated", TRUE),
           response_message |-> r.message,
           strategy |-> r.strategy,
           engine |-> r] :
             r \in generate_response(incoming_message, c["messages"],
                                     Get(c, "scam_type", "unknown"))}
    ELSE {[record |-> c,
           response_message |-> generate_initial_response(incoming_message),
           strategy |-> "initial_engagement",
           engine |-> NoEngine]}

\* conversation['messages'].append({'role': 'agent', ...})
AppendReply(c, response_message, strategy) ==
    WithKey(c, "messages",
            Append(c["messages"],
                   [role |-> "agent", content |-> response_message, strategy |-> strategy]))

\* A merge that extends the lists the record holds instead of replacing them
MergeIntelligenceExtend(c, extracted_intel) ==
    WithKey(c, "extracted_intelligence",
            [k \in DOMAIN extracted_intel |->
                IF k \in ListKinds
                THEN Get(c["extracted_intelligence"], k, <<>>) \o extracted_intel[k]
                ELSE extracted_intel[k]])

\* conversation['extracted_intelligence'].update(extracted_intel)
MergeIntelligence(c, extracted_intel) ==
    WithKey(c, "extracted_intelligence", Update(c["extracted_intelligence"], extracted_intel))

\* What a finished request is observed to have done
Observation(conversation_id, incoming_message, scorer_called, at_reply, reply) ==
    [conversation_id |-> conversation_id,
     message |-> incoming_message,
     scorer_called |-> scorer_called,
     engine_called |-> reply.engine # NoEngine,
     turn_count |-> reply.engine.turn_count,
     scammer_count |-> ScammerCount(at_reply["messages"]),
     agent_count |-> engine_turn_count(at_reply["messages"]),
     stage |-> reply.engine.stage,
     selected |-> reply.engine.selected,
     strategy |-> reply.strategy,
     response_message |-> reply.response_message]

NoObservation ==
    [conversation_id |-> "", message |-> "", scorer_called |-> FALSE, engine_called |-> FALSE,
     turn_count |-> -1, scammer_count |-> 0, agent_count |-> 0, stage |-> "none",
     selected |-> "", strategy |-> "", response_message |-> Text("", "")]

Request(conversation_id, incoming_message) ==
    [conversation_id |-> conversation_id, message |-> incoming_message]

NoRequest == Request("", "")

NoTmp == [turn_count |-> 0, scorer_called |-> FALSE, at_reply |-> NewConversation,
          reply |-> [record |-> NewConversation, response_message |-> Text("", ""),
                     strategy |-> "", engine |-> NoEngine],
          extracted_intel |-> EmptyDict]

NoFn == [phase |-> "none"]

\* The service after start-up: conversation_store = {} and no request in flight
EmptyService ==
    /\ conversation_store = [id \in ConvIds |-> NoObject]
    /\ heap = <<>>
    /\ requests = <<>>
    /\ last = NoObservation
    /\ pc = [t \in Threads |-> "idle"]
    /\ req = [t \in Threads |-> NoRequest]
    /\ conversation = [t \in Threads |-> NoObject]
    /\ tmp = [t \in Threads |-> NoTmp]

Init ==
    /\ EmptyService
    /\ fn = NoFn

\* The record bound to a conversation id
Bound(id) == conversation_store[id] # NoObject
Record(id) == heap[conversation_store[id]]

\* conversation_store[conversation_id] = {...}
StoreNew(store, conversation_id, obj) == [store EXCEPT ![conversation_id] = obj]

\* A write that reaches every record of the store
HeapWriteAll(h, obj, c) == [k \in DOMAIN h |-> c]

\* A write through the reference `conversation`: it reaches the one record the
\* reference points to
HeapWrite(h, obj, c) == [h EXCEPT ![obj] = c]

\* The body of handle_message on the record c0, run from start to end: every
\* outcome the random draws of the engine allow
HandleOutcomes(c0, incoming_message) ==
    LET Extracted(c4) == MergeIntelligence(c4, extract(c4["messages"]))
        Replied(c2, c3) ==
           {[record |-> Extracted(AppendReply(reply.record, reply.response_message,
                                              reply.strategy)),
             scorer_called |-> ScorerRuns(c2),
             at_reply |-> c3,
             reply |-> reply] : reply \in GenerateReply(c3, incoming_message)}
        Counted(c2) == Replied(c2, DetectScam(c2, incoming_message))
        Appended(c1) == Counted(StoreTurnCount(c1, c1["turn_count"]))
    IN  Appended(AppendIncoming(c0, incoming_message))

\* handle_message, one request processed from start to end with no other
\* request in between
HandleMessage(conversation_id, incoming_message) ==
    /\ Len(requests) < MaxRequests
    /\ LET fresh == ~Bound(conversation_id)
           obj == IF fresh THEN Len(heap) + 1 ELSE conversation_store[conversation_id]
           c0 == IF fresh THEN NewConversation ELSE heap[obj]
       IN  \E out \in HandleOutcomes(c0, incoming_message) :
              /\ heap' = HeapWrite(IF fresh THEN Append(heap, NewConversation) ELSE heap,
                                   obj, out.record)
              /\ conversation_store' = IF fresh
                                       THEN StoreNew(conversation_store, conversation_id, obj)
                                       ELSE conversation_store
              /\ last' = Observation(conversation_id, incoming_message,
                                     out.scorer_called, out.at_reply, out.reply)
    /\ requests' = Append(requests, Request(conversation_id, incoming_message))
    /\ UNCHANGED <<pc, req, conversation, tmp, fn>>

Next == \E id \in ConvIds : \E m \in OrchMessages : HandleMessage(id, m)

Spec == Init /\ [][Next]_vars

----------------------------------------------------------------------------
(* handle_message run by worker threads (app.run serves each request on a   *)
(* thread of its own; nothing in app.py locks conversation_store or a       *)
(* record), cut where another thread can run in between.                    *)

Obj(t) == conversation[t]

SetPc(t, label) == pc' = [pc EXCEPT ![t] = label]
SetObj(o, c) == heap' = HeapWrite(heap, o, c)

\* request.get_json(): a request arrives
ThreadAccept(t, conversation_id, incoming_message) ==
    /\ pc[t] = "idle"
    /\ Len(requests) < MaxConcRequests
    /\ req' = [req EXCEPT ![t] = Request(conversation_id, incoming_message)]
    /\ requests' = Append(requests, Request(conversation_id, incoming_message))
    /\ SetPc(t, "lookup")
    /\ UNCHANGED <<conversation_store, heap, last, conversation, tmp, fn>>

\* if conversation_id not in conversation_store
ThreadLookup(t) ==
    /\ pc[t] = "lookup"
    /\ SetPc(t, IF Bound(req[t].conversation_id) THEN "bind" ELSE "create")
    /\ UNCHANGED <<conversation_store, heap, requests, last, req, conversation, tmp, fn>>

ThreadCreate(t) ==
    /\ pc[t] = "create"
    /\ heap' = Append(heap, NewConversation)
    /\ conversation_store' = StoreNew(conversation_store, req[t].conversation_id, Len(heap) + 1)
    /\ SetPc(t, "bind")
    /\ UNCHANGED <<requests, last, req, conversation, tmp, fn>>

\* conversation = conversation_store[conversation_id]
ThreadBind(t) ==
    /\ pc[t] = "bind"
    /\ conversation' = [conversation EXCEPT ![t] = conversation_store[req[t].conversation_id]]
    /\ SetPc(t, "append_incoming")
    /\ UNCHANGED <<conversation_store, heap, requests, last, req, tmp, fn>>

ThreadAppendIncoming(t) ==
    /\ pc[t] = "append_incoming"
    /\ SetObj(Obj(t), AppendIncoming(heap[Obj(t)], req[t].message))
    /\ SetPc(t, "read_turn")
    /\ UNCHANGED <<conversation_store, requests, last, req, conversation, tmp, fn>>

\* conversation['turn_count'] += 1 reads the count ...
ThreadReadTurn(t) ==
    /\ pc[t] = "read_turn"
    /\ tmp' = [tmp EXCEPT ![t].turn_count = heap[Obj(t)]["turn_count"]]
    /\ SetPc(t, "write_turn")
    /\ UNCHANGED <<conversation_store, heap, requests, last, req, conversation, fn>>

\* ... and stores the count it read, plus one
ThreadWriteTurn(t) ==
    /\ pc[t] = "write_turn"
    /\ SetObj(Obj(t), StoreTurnCount(heap[Obj(t)], tmp[t].turn_count))
    /\ SetPc(t, "check_detected")
    /\ UNCHANGED <<conversation_store, requests, last, req, conversation, tmp, fn>>

\* if not conversation['scam_detected']
ThreadCheckDetected(t) ==
    /\ pc[t] = "check_detected"
    /\ tmp' = [tmp EXCEPT ![t].scorer_called = ScorerRuns(heap[Obj(t)])]
    /\ SetPc(t, IF ScorerRuns(heap[Obj(t)]) THEN "detect" ELSE "reply")
    /\ UNCHANGED <<conversation_store, heap, requests, last, req, conversation, fn>>

\* scam_detector.analyze(...) and the writes under `if scam_analysis['is_scam']`
ThreadDetect(t) ==
    /\ pc[t] = "detect"
    /\ SetObj(Obj(t), ApplyAnalysis(heap[Obj(t)], req[t].message))
    /\ SetPc(t, "reply")
    /\ UNCHANGED <<conversation_store, requests, last, req, conversation, tmp, fn>>

ThreadReply(t) ==
    /\ pc[t] = "reply"
    /\ \E reply \in GenerateReply(heap[Obj(t)], req[t].message) :
          /\ SetObj(Obj(t), reply.record)
          /\ tmp' = [tmp EXCEPT ![t].reply = reply, ![t].at_reply = heap[Obj(t)]]
    /\ SetPc(t, "append_reply")
    /\ UNCHANGED <<conversation_store, requests, last, req, conversation, fn>>

ThreadAppendReply(t) ==
    /\ pc[t] = "append_reply"
    /\ SetObj(Obj(t), AppendReply(heap[Obj(t)], tmp[t].reply.response_message,
                                  tmp[t].reply.strategy))
    /\ SetPc(t, "extract")
    /\ UNCHANGED <<conversation_store, requests, last, req, conversation, tmp, fn>>

\* extracted_intel = intelligence_extractor.extract(conversation['messages'])
ThreadExtract(t) ==
    /\ pc[t] = "extract"
    /\ tmp' = [tmp EXCEPT ![t].extracted_intel = extract(heap[Obj(t)]["messages"])]
    /\ SetPc(t, "update")
    /\ UNCHANGED <<conversation_store, heap, requests, last, req, conversation, fn>>

ThreadUpdate(t) ==
    /\ pc[t] = "update"
    /\ SetObj(Obj(t), MergeIntelligence(heap[Obj(t)], tmp[t].extracted_intel))
    /\ SetPc(t, "return")
    /\ UNCHANGED <<conversation_store, requests, last, req, conversation, tmp, fn>>

\* return jsonify(response), 200
ThreadReturn(t) ==
    /\ pc[t] = "return"
    /\ last' = Observation(req[t].conversation_id, req[t].message, tmp[t].scorer_called,
                           tmp[t].at_reply, tmp[t].reply)
    /\ SetPc(t, "idle")
    /\ req' = [req EXCEPT ![t] = NoRequest]
    /\ conversation' = [conversation EXCEPT ![t] = NoObject]
    /\ tmp' = [tmp EXCEPT ![t] = NoTmp]
    /\ UNCHANGED <<conversation_store, heap, requests, fn>>

NextConc ==
    \/ \E t \in Threads : \E id \in ConvIds : \E m \in ConcMessages : ThreadAccept(t, id, m)
    \/ \E t \in Threads : ThreadLookup(t)
    \/ \E t \in Threads : ThreadCreate(t)
    \/ \E t \in Threads : ThreadBind(t)
    \/ \E t \in Threads : ThreadAppendIncoming(t)
    \/ \E t \in Threads : ThreadReadTurn(t)
    \/ \E t \in Threads : ThreadWriteTurn(t)
    \/ \E t \in Threads : ThreadCheckDetected(t)
    \/ \E t \in Threads : ThreadDetect(t)
    \/ \E t \in Threads : ThreadReply(t)
    \/ \E t \in Threads : ThreadAppendReply(t)
    \/ \E t \in Threads : ThreadExtract(t)
    \/ \E t \in Threads : ThreadUpdate(t)
    \/ \E t \in Threads : ThreadReturn(t)

SpecConc == Init /\ [][NextConc]_vars

----------------------------------------------------------------------------
(* _determine_stage and analyze called on their own, over bounded inputs *)

MaxTurnCount == 8
MaxHistory == 3

service == <<conversation_store, heap, requests, last, pc, req, conversation, tmp>>

InitStage ==
    /\ EmptyService
    /\ \E n \in 0..MaxTurnCount : \E m \in Messages : \E ty \in {"unknown", "payment_scam"} :
          fn = [phase |-> "input", turn_count |-> n, message |-> m, scam_type |-> ty]

DetermineStage ==
    /\ fn.phase = "input"
    /\ fn' = [phase |-> "done", turn_count |-> fn.turn_count, message |-> fn.message,
              scam_type |-> fn.scam_type,
              stage |-> _determine_stage(fn.turn_count, fn.message, fn.scam_type)]
    /\ UNCHANGED service

NextStage == DetermineStage

SpecStage == InitStage /\ [][NextStage]_vars

\* The contents the entries of a drawn history have
HistoryMessages == {"hello how are you", "Please send the OTP", "enter your atm pin and cvv"}

HistoryEntries == {[role |-> r, content |-> m] : r \in {"scammer", "agent"}, m \in HistoryMessages}

Histories == UNION {[1..n -> HistoryEntries] : n \in 0..MaxHistory}

InitScore ==
    /\ EmptyService
    /\ \E m \in Messages : \E h \in Histories :
          fn = [phase |-> "input", message |-> m, history |-> h]

Analyze ==
    /\ fn.phase = "input"
    /\ fn' = [phase |-> "done", message |-> fn.message, history |-> fn.history,
              result |-> analyze(fn.message, fn.history)]
    /\ UNCHANGED service

NextScore == Analyze

SpecScore == InitScore /\ [][NextScore]_vars

(* extract called on its own, over a transcript that grows entry by entry *)

MaxTranscript == 4

\* What the scammer says in a drawn transcript
ExtractMessages == {
    "hello how are you",
    "Account: 123456789012, IFSC: SBIN0001234",
    "9876543210@paytm",
    "user@gmail.com",
    "My Aadhar is 1234 5678 9012",
    "Your HDFC account will be blocked due to pending KYC. Update now: http://hdfc-kyc-update.tk",
    "Congratulations! You have won Rs 25 lakhs in lucky draw. Pay Rs 5000 processing fee to 9876543210@paytm",
    "urgent: account will be blocked, send otp pin cvv now http://x.tk 9876543210" }

\* The entries of a drawn transcript: a scammer message, or an agent reply
\* that repeats an account number
TranscriptEntries ==
    {[role |-> "scammer", content |-> m] : m \in ExtractMessages}
    \cup {[role |-> "agent", content |-> "Account: 123456789012, IFSC: SBIN0001234"]}

InitExtract ==
    /\ EmptyService
    /\ fn = [phase |-> "input", transcript |-> <<>>, result |-> EmptyDict, previous |-> EmptyDict]

\* intelligence = extractor.extract(transcript)
Extract ==
    /\ fn.phase = "input"
    /\ fn' = [phase |-> "done", transcript |-> fn.transcript,
              result |-> extract(fn.transcript), previous |-> fn.result]
    /\ UNCHANGED service

\* One more entry is appended to the transcript
Say(entry) ==
    /\ fn.phase = "done"
    /\ Len(fn.transcript) < MaxTranscript
    /\ fn' = [fn EXCEPT !.phase = "input", !.transcript = Append(fn.transcript, entry)]
    /\ UNCHANGED service

NextExtract == Extract \/ \E entry \in TranscriptEntries : Say(entry)

SpecExtract == InitExtract /\ [][NextExtract]_vars

(* generate_response called twice on the same message and turn count *)

RespondMessages == {
    "hello how are you",
    "Please send the OTP",
    "click the link to claim your reward urgent",
    "Congratulations! You have won Rs 25 lakhs in lucky draw. Pay Rs 5000 processing fee to 9876543210@paytm" }

RespondTypes == {"unknown", "financial_fraud", "lottery_prize"}

\* A history in which the agent has replied n times and the scammer has just
\* sent the message
RECURSIVE HistoryOfTurns(_, _)
HistoryOfTurns(n, incoming_message) ==
    IF n = 0 THEN <<[role |-> "scammer", content |-> incoming_message]>>
    ELSE <<[role |-> "scammer", content |-> "hello how are you"],
           [role |-> "agent", content |-> "reply"]>>
         \o HistoryOfTurns(n - 1, incoming_message)

InitRespond ==
    /\ EmptyService
    /\ \E m \in RespondMessages : \E n \in 0..MaxTurnCount :
       \E ty \in RespondTypes : \E other \in RespondTypes :
          fn = [phase |-> "input", message |-> m, turn_count |-> n,
                scam_type |-> ty, other_type |-> other]

\* Two calls of agent.generate_response, each with random draws of its own
Respond ==
    /\ fn.phase = "input"
    /\ \E first \in generate_response(fn.message, HistoryOfTurns(fn.turn_count, fn.message),
                                       fn.scam_type) :
       \E second \in generate_response(fn.message, HistoryOfTurns(fn.turn_count, fn.message),
                                        fn.other_type) :
          fn' = [phase |-> "done", message |-> fn.message, turn_count |-> fn.turn_count,
                 scam_type |-> fn.scam_type, other_type |-> fn.other_type,
                 first |-> first, second |-> second]
    /\ UNCHANGED service

NextRespond == Respond

SpecRespond == InitRespond /\ [][NextRespond]_vars

(* handle_message with its except clause: a request whose message is accepted
   and then makes a component raise is answered with 500 *)

\* A "message" field that is not a str (a JSON number, null): it passes the
\* test 'message' not in data, and every str method called on it raises
NonText == "<not a str>"
IsStr(message) == message # NonText

FailMessages == {"hello how are you", "Please send the OTP", NonText}

\* scam_detector.analyze raises: message.lower(), or msg['content'].lower()
\* on a scammer entry among the last three of a history longer than one
AnalyzeRaises(message, conversation_history) ==
    \/ ~IsStr(message)
    \/ /\ Len(conversation_history) > 1
       /\ \E k \in DOMAIN LastThree(conversation_history) :
             /\ LastThree(conversation_history)[k].role = "scammer"
             /\ ~IsStr(LastThree(conversation_history)[k].content)

\* engagement_agent.generate_response raises: incoming_message.lower()
RespondRaises(incoming_message) == ~IsStr(incoming_message)

\* intelligence_extractor.extract raises: re.findall on the content of a
\* scammer entry
ExtractRaises(conversation_history) ==
    \E k \in DOMAIN conversation_history :
        /\ conversation_history[k].role = "scammer"
        /\ ~IsStr(conversation_history[k].content)

\* The body of handle_message on the record c0 with the except clause: the
\* record as the request leaves it and the status it returns
RequestOutcomes(c0, incoming_message) ==
    LET Returned(c, status) == [record |-> c, status |-> status]
        Extracted(c4) ==
           IF ExtractRaises(c4["messages"]) THEN Returned(c4, 500)
           ELSE Returned(MergeIntelligence(c4, extract(c4["messages"])), 200)
        Replied(c3) ==
           IF c3["scam_detected"] /\ RespondRaises(incoming_message)
           THEN {Returned(WithKey(c3, "agent_activated", TRUE), 500)}
           ELSE {Extracted(AppendReply(reply.record, reply.response_message, reply.strategy)) :
                    reply \in GenerateReply(c3, incoming_message)}
        Counted(c2) ==
           IF ScorerRuns(c2) /\ AnalyzeRaises(incoming_message, c2["messages"])
           THEN {Returned(c2, 500)}
           ELSE Replied(DetectScam(c2, incoming_message))
        Appended(c1) == Counted(StoreTurnCount(c1, c1["turn_count"]))
    IN  Appended(AppendIncoming(c0, incoming_message))

\* handle_message, one request from start to return, 200 or 500
HandleRequest(conversation_id, incoming_message) ==
    /\ Len(requests) < MaxRequests
    /\ LET fresh == ~Bound(conversation_id)
           obj == IF fresh THEN Len(heap) + 1 ELSE conversation_store[conversation_id]
           c0 == IF fresh THEN NewConversation ELSE heap[obj]
       IN  \E out \in RequestOutcomes(c0, incoming_message) :
              /\ heap' = HeapWrite(IF fresh THEN Append(heap, NewConversation) ELSE heap,
                                   obj, out.record)
              /\ conversation_store' = IF fresh
                                       THEN StoreNew(conversation_store, conversation_id, obj)
                                       ELSE conversation_store
              /\ fn' = [phase |-> "returned", status |-> out.status,
                        conversation_id |-> conversation_id, message |-> incoming_message,
                        fresh |-> fresh, before |-> c0]
    /\ requests' = Append(requests, Request(conversation_id, incoming_message))
    /\ UNCHANGED <<last, pc, req, conversation, tmp>>

NextFail == \E id \in ConvIds : \E m \in FailMessages : HandleRequest(id, m)

SpecFail == Init /\ [][NextFail]_vars

(* _select_strategy called on its own, over every stage, and behind
   _determine_stage as generate_response calls it *)

StrategyMessages == {
    "hello how are you",
    "happy shopping",
    "do it immediately",
    "Please send the OTP",
    "what is your password",
    "tell me your account number",
    "send otp for account number now",
    "Account: 123456789012, IFSC: SBIN0001234",
    "9876543210@paytm",
    "click the link to claim your reward urgent",
    "urgent: account will be blocked, send otp pin cvv now http://x.tk 9876543210" }

InitStrategy ==
    /\ EmptyService
    /\ \E m \in StrategyMessages : \E n \in 0..MaxTurnCount : \E st \in Stages :
          fn = [phase |-> "input", message |-> m, turn_count |-> n, stage |-> st]

\* strategy = self._select_strategy(stage, incoming_message, turn_count, ...),
\* for the drawn stage and for the stage _determine_stage gives
SelectStrategy ==
    /\ fn.phase = "input"
    /\ fn' = [phase |-> "done", message |-> fn.message, turn_count |-> fn.turn_count,
              stage |-> fn.stage,
              strategy |-> _select_strategy(fn.stage, fn.message, fn.turn_count),
              determined |-> _determine_stage(fn.turn_count, fn.message, "unknown"),
              selected |-> _select_strategy(
                               _determine_stage(fn.turn_count, fn.message, "unknown"),
                               fn.message, fn.turn_count)]
    /\ UNCHANGED service

NextStrategy == SelectStrategy

SpecStrategy == InitStrategy /\ [][NextStrategy]_vars

----------------------------------------------------------------------------
(* Properties *)

KycMessage ==
    "Your HDFC account will be blocked due to pending KYC. Update now: http://hdfc-kyc-update.tk"
AccountMessage == "Account: 123456789012, IFSC: SBIN0001234"

\* Messages that ask for a one-time code, a PIN, a CVV, a password, a card
\* number or an account number
CredentialRequestMessages == {
    "Please send the OTP",
    "enter your atm pin and cvv",
    "what is your password",
    "give me the card number",
    "tell me your account number",
    "urgent: account will be blocked, send otp pin cvv now http://x.tk 9876543210" }

StageSequence == <<"initial_contact", "confusion", "interest", "verification",
                   "compliance", "compliance", "extraction", "extraction">>

\* No scammer message of the history holds a keyword of the jump to extraction
OverrideFree(conversation_history) ==
    \A k \in 1..Len(conversation_history) :
        conversation_history[k].role = "scammer"
            => conversation_history[k].content \in {"hello how are you", KycMessage, AccountMessage}

\* C2: in a scam-confirmed conversation whose scammer messages hold no
\* override keyword, handled one message at a time, the stage reported at
\* scammer turn k (k = 1..8) is the k-th of initial_contact, confusion,
\* interest, verification, compliance, compliance, extraction, extraction.
C2_StageFollowsScammerTurn ==
    (/\ last.engine_called
     /\ last.scammer_count \in 1..Len(StageSequence)
     /\ OverrideFree(Record(last.conversation_id)["messages"]))
        => last.stage = StageSequence[last.scammer_count]

\* C3: the turn count the engine derives the stage from equals the number of
\* scammer messages in the record at the time of the call.
C3_TurnCountIsScammerCount ==
    last.engine_called => last.turn_count = last.scammer_count

\* C4: the confidence the scorer returns lies in [0, 1] (0..1000 thousandths),
\* and is_scam is true exactly when the confidence is at least 0.30.
C4_ConfidenceRangeAndVerdict ==
    fn.phase = "done"
        => /\ fn.result.confidence >= 0
           /\ fn.result.confidence <= 1000
           /\ fn.result.is_scam <=> (fn.result.confidence >= 300)

\* A message whose contributions sum to more than 1, scored with a history
\* that adds the progression signal
C4_Witness ==
    /\ fn.phase = "done"
    /\ ScoreParts(fn.message, fn.history).score > 1000
    /\ Len(fn.history) > 1
    /\ fn.result.confidence = 1000
    /\ fn.result.is_scam

Confirmed(id) == Bound(id) /\ Record(id)["scam_detected"]

\* C5: once a record's scam_detected flag is true after a request, it is true
\* after every later request on that record.
C5_ConfirmedIsMonotonic ==
    [][\A id \in ConvIds :
          Confirmed(id) => (conversation_store'[id] # NoObject
                            /\ heap'[conversation_store'[id]]["scam_detected"])]_vars

\* A confirmed record that has since handled a message the scorer does not
\* rate a scam
C5_Witness ==
    \E id \in ConvIds :
        /\ Confirmed(id)
        /\ last.conversation_id = id
        /\ ~last.scorer_called
        /\ ~analyze(last.message, <<>>).is_scam

\* What the confirming turn sets
Verdict(c) == <<c["scam_type"], c["confidence"], c["indicators"]>>

\* C6: once a record is confirmed, the scorer is not invoked again for it and
\* its scam type, confidence and indicators keep the values of the confirming
\* turn through every later turn.
C6_VerdictFrozen ==
    [][\A id \in ConvIds :
          Confirmed(id) =>
             /\ Verdict(heap'[conversation_store'[id]]) = Verdict(Record(id))
             /\ (requests' # requests /\ last'.conversation_id = id) => ~last'.scorer_called]_vars

\* A confirmed record that has since handled a message which, scored on its
\* own, is a scam of another type
C6_Witness ==
    \E id \in ConvIds :
        /\ Confirmed(id)
        /\ last.conversation_id = id
        /\ ~last.scorer_called
        /\ analyze(last.message, <<>>).is_scam
        /\ analyze(last.message, <<>>).scam_type # Record(id)["scam_type"]

Holds(list, item) == \E j \in 1..Len(list) : list[j] = item

\* The findings of a record, by kind (none before the first extraction)
Findings(c, kind) == Get(c["extracted_intelligence"], kind, <<>>)

\* C7: a finding present in a record's extracted_intelligence after a turn is
\* present, with the same field values, after every later turn on the record.
C7_FindingsKept ==
    [][\A id \in ConvIds : Bound(id) =>
          \A kind \in ListKinds :
             \A k \in 1..Len(Findings(Record(id), kind)) :
                Holds(Findings(heap'[conversation_store'[id]], kind),
                      Findings(Record(id), kind)[k])]_vars

\* A record whose first message gave an account and an IFSC code and whose
\* later message gave a URL: all three are held
C7_Witness ==
    \E id \in ConvIds :
        /\ Bound(id)
        /\ Len(Record(id)["messages"]) >= 4
        /\ Record(id)["messages"][1].content = AccountMessage
        /\ last.conversation_id = id
        /\ last.message = KycMessage
        /\ Len(Findings(Record(id), "bank_accounts")) = 1
        /\ Len(Findings(Record(id), "ifsc_codes")) = 1
        /\ Len(Findings(Record(id), "phishing_urls")) = 1

AllIdle == \A t \in Threads : pc[t] = "idle"

\* The messages of the requests for one conversation id, in order of arrival
RECURSIVE MessagesFor(_, _)
MessagesFor(id, q) ==
    IF q = <<>> THEN <<>>
    ELSE (IF Head(q).conversation_id = id THEN <<Head(q).message>> ELSE <<>>)
         \o MessagesFor(id, Tail(q))

\* Every order of the entries of q
Orders(q) ==
    {[k \in 1..Len(q) |-> q[f[k]]] :
        f \in {g \in [1..Len(q) -> 1..Len(q)] : \A a, b \in 1..Len(q) : g[a] = g[b] => a = b}}

\* The records that handling the messages one after the other, each from start
\* to end, can leave
RECURSIVE SerialRecords(_, _)
SerialRecords(records, messages) ==
    IF messages = <<>> THEN records
    ELSE SerialRecords(
            UNION {{out.record : out \in HandleOutcomes(c, Head(messages))} : c \in records},
            Tail(messages))

\* C8: when requests for one conversation id are processed concurrently, the
\* record they leave equals the record some serial order of them leaves, and
\* no record is created twice.
C8_Serializable ==
    AllIdle =>
        /\ Len(heap) = Cardinality({id \in ConvIds : Bound(id)})
        /\ \A id \in ConvIds : Bound(id) =>
              \E order \in Orders(MessagesFor(id, requests)) :
                  Record(id) \in SerialRecords({NewConversation}, order)

\* The record bound to an id, or that there is none
RecordOf(store, h, id) ==
    IF store[id] # NoObject THEN <<TRUE, h[store[id]]>> ELSE <<FALSE, NewConversation>>

\* C9: a step of a request for one conversation id leaves the record of every
\* other conversation id as it was, also while requests for different ids are
\* in flight together.
C9_OtherRecordsUnchanged ==
    [][\A t \in Threads : pc'[t] # pc[t] =>
          \A id \in ConvIds \ {req[t].conversation_id} :
             RecordOf(conversation_store', heap', id) = RecordOf(conversation_store, heap, id)]_vars

\* Two requests for different ids in flight together, each past its first
\* write to its record
C9_Witness ==
    \E t, u \in Threads :
        /\ req[t].conversation_id = "c1"
        /\ req[u].conversation_id = "c2"
        /\ pc[t] \in {"reply", "append_reply", "extract", "update"}
        /\ pc[u] \in {"reply", "append_reply", "extract", "update"}
        /\ Bound("c1") /\ Len(Record("c1")["messages"]) >= 1
        /\ Bound("c2") /\ Len(Record("c2")["messages"]) >= 1

\* C10: extraction is deduplicated once and for all: deduplicating the
\* extraction of a transcript again gives the same findings, the record holds
\* the extraction of its transcript, and merging that extraction into the
\* record again changes no finding.
C10_ExtractionIdempotent ==
    \A id \in ConvIds : Bound(id) =>
        LET c == Record(id)
            once == extract(c["messages"])
        IN  /\ _deduplicate_intelligence(once) = once
            /\ \A kind \in ListKinds : Findings(c, kind) = once[kind]
            /\ \A kind \in ListKinds :
                  Findings(MergeIntelligence(c, once), kind) = Findings(c, kind)

\* A record that received the same account message twice and holds the
\* account once
C10_Witness ==
    \E id \in ConvIds :
        /\ Bound(id)
        /\ Len(Record(id)["messages"]) >= 4
        /\ Record(id)["messages"][1].content = AccountMessage
        /\ Record(id)["messages"][3].content = AccountMessage
        /\ Len(Findings(Record(id), "bank_accounts")) = 1
        /\ Len(MessageFindings(AccountMessage)["bank_accounts"]) = 1

----------------------------------------------------------------------------
(* Properties of extract on its own *)

AadharMessage == "My Aadhar is 1234 5678 9012"
PaytmMessage == "9876543210@paytm"
GmailMessage == "user@gmail.com"

\* The value that identifies a finding of a kind
NormalizedValue(kind, item) ==
    CASE kind \in DedupKinds -> DedupKey(kind, item)
      [] kind = "amounts_mentioned" -> item.amount
      [] kind = "pan_cards" -> item.pan_number
      [] kind = "aadhar_numbers" -> item.aadhar_masked
      [] OTHER -> item

\* How many times a message occurs among the scammer messages
Occurrences(transcript, message) ==
    Cardinality({k \in 1..Len(transcript) :
                    transcript[k].role = "scammer" /\ transcript[k].content = message})

\* C11: after extract, no two findings of a kind share their normalized
\* value, whatever the kind (accounts, IFSC codes, UPI ids, phone numbers,
\* URLs, e-mail addresses, amounts, PAN codes, Aadhar numbers, payment apps).
C11_NoDuplicateFindings ==
    fn.phase = "done" =>
        \A kind \in ListKinds :
            \A i, j \in 1..Len(fn.result[kind]) :
                i # j => NormalizedValue(kind, fn.result[kind][i])
                         # NormalizedValue(kind, fn.result[kind][j])

\* The findings of a list whose field has the value
WithValue(list, field, value) == {k \in 1..Len(list) : list[k][field] = value}

\* C12: when the scammer says "Account: 123456789012, IFSC: SBIN0001234" and
\* later says it again, extract reports that account once and that IFSC code
\* once; when nothing else in the transcript holds an identifier, these are
\* the only bank-account and IFSC findings.
C12_RepeatedAccountReportedOnce ==
    fn.phase = "done" /\ Occurrences(fn.transcript, AccountMessage) >= 2 =>
        /\ Cardinality(WithValue(fn.result["bank_accounts"], "account_number",
                                 "123456789012")) = 1
        /\ Cardinality(WithValue(fn.result["ifsc_codes"], "ifsc_code", "SBIN0001234")) = 1
        /\ (\A k \in 1..Len(fn.transcript) :
                fn.transcript[k].content \in {AccountMessage, "hello how are you"})
           => /\ Len(fn.result["bank_accounts"]) = 1
              /\ Len(fn.result["ifsc_codes"]) = 1

C12_Witness ==
    /\ fn.phase = "done"
    /\ Len(fn.transcript) = 3
    /\ fn.transcript[1] = [role |-> "scammer", content |-> AccountMessage]
    /\ fn.transcript[2].content = "hello how are you"
    /\ fn.transcript[3] = [role |-> "scammer", content |-> AccountMessage]
    /\ Len(fn.result["bank_accounts"]) = 1
    /\ Len(fn.result["ifsc_codes"]) = 1

QualityScore(intelligence) == intelligence["summary"].intelligence_quality_score

\* C13: the quality score of a transcript is at most 100 and is never below
\* the score the transcript had before its last entry was said.
C13_QualityMonotoneAndCapped ==
    fn.phase = "done" =>
        /\ QualityScore(fn.result) \in 0..QualityCap
        /\ DOMAIN fn.previous # {} => QualityScore(fn.previous) <= QualityScore(fn.result)

\* A fourth message brings findings worth more than what is left below 100
C13_Witness ==
    /\ fn.phase = "done"
    /\ Len(fn.transcript) = MaxTranscript
    /\ DOMAIN fn.previous # {}
    /\ QualityScore(fn.previous) = 91
    /\ Len(fn.result["phishing_urls"]) = Len(fn.previous["phishing_urls"]) + 1
    /\ QualityScore(fn.result) = QualityCap

\* The transcript is what the scammer said once: the message
SaidOnly(message) ==
    /\ fn.phase = "done"
    /\ fn.transcript = <<[role |-> "scammer", content |-> message]>>

\* C14: "9876543210@paytm" gives a UPI finding and no e-mail finding;
\* "user@gmail.com" gives an e-mail finding and no UPI finding.
C14_UpiEmailDisambiguation ==
    /\ SaidOnly(PaytmMessage) => /\ fn.result["upi_ids"] # <<>>
                                 /\ fn.result["email_addresses"] = <<>>
    /\ SaidOnly(GmailMessage) => /\ fn.result["email_addresses"] # <<>>
                                 /\ fn.result["upi_ids"] = <<>>

AadharNumber == "1234 5678 9012"

\* The texts a finding of a kind carries in its fields
FieldTexts(kind, item) ==
    CASE kind = "bank_accounts" -> {item.account_number, item.extracted_from}
      [] kind = "ifsc_codes" ->
            {item.ifsc_code, item.bank_code, item.branch_code, item.extracted_from}
      [] kind = "upi_ids" -> {item.upi_id, item.provider, item.extracted_from}
      [] kind = "phone_numbers" -> {item.phone_number, item.formatted, item.extracted_from}
      [] kind = "phishing_urls" ->
            {item.url, item.domain, item.extracted_from}
            \cup {item.suspicion_reasons[k] : k \in 1..Len(item.suspicion_reasons)}
      [] kind = "email_addresses" -> {item.email, item.domain, item.extracted_from}
      [] kind = "amounts_mentioned" -> {item.formatted, item.context}
      [] kind = "pan_cards" -> {item.pan_number, item.extracted_from}
      [] kind = "aadhar_numbers" -> {item.aadhar_masked, item.extracted_from}
      [] OTHER -> {item}

\* C15: for a scammer message holding the Aadhar number "1234 5678 9012" the
\* Aadhar finding shows the mask and the last four digits, and no field of
\* any finding of any kind holds the full number.
C15_AadharNeverExposed ==
    SaidOnly(AadharMessage) =>
        /\ Len(fn.result["aadhar_numbers"]) = 1
        /\ fn.result["aadhar_numbers"][1].aadhar_masked = AadharMask \o "9012"
        /\ \A kind \in ListKinds : \A k \in 1..Len(fn.result[kind]) :
              \A text \in FieldTexts(kind, fn.result[kind][k]) : ~Contains(text, AadharNumber)

----------------------------------------------------------------------------
(* Properties of the handler, continued *)

\* The scorer's categories for bank and account fraud, and the reason the
\* URL analysis records for a low-trust top-level domain
BankingRelated == {"financial_fraud"}
LowTrustTld == "Suspicious TLD"

\* C16: a conversation opened with the KYC message is confirmed as a scam
\* with confidence at least 0.30 and a banking-related category, and its
\* intelligence holds exactly one URL finding, whose suspicion reasons
\* include the low-trust TLD reason.
C16_KycScenario ==
    \A id \in ConvIds :
        Bound(id) /\ Record(id)["messages"] # <<>>
                  /\ Record(id)["messages"][1].content = KycMessage =>
            /\ Record(id)["scam_detected"]
            /\ Record(id)["confidence"] >= ScamThreshold
            /\ Record(id)["scam_type"] \in BankingRelated
            /\ Len(Findings(Record(id), "phishing_urls")) = 1
            /\ Holds(Findings(Record(id), "phishing_urls")[1].suspicion_reasons, LowTrustTld)

C16_Witness ==
    /\ Bound("c1")
    /\ Len(Record("c1")["messages"]) = 2
    /\ Record("c1")["messages"][1].content = KycMessage
    /\ Record("c1")["confidence"] = 720
    /\ Findings(Record("c1"), "phishing_urls")[1].url = "http://hdfc-kyc-update.tk"

\* The record of the conversation the latest finished request was for, and
\* its transcript as it was when the reply was produced
LastRecord == Record(last.conversation_id)
BeforeReply(c) == SubSeq(c["messages"], 1, Len(c["messages"]) - 1)

\* The latest reply is one the engine gives for the message, the transcript
\* and the category
FromEngine(c, scam_type) ==
    \E r \in generate_response(last.message, BeforeReply(c), scam_type) :
        /\ r.message = last.response_message
        /\ r.strategy = last.strategy
        /\ r.stage = last.stage

\* C18: a turn that leaves the record unconfirmed is answered by
\* generate_initial_response and the engine is not called; the confirming
\* turn and every later one are answered by generate_response with the
\* category the record holds; on every turn the record's intelligence is the
\* extraction of the whole transcript, the reply included.
C18_ReplyPathFollowsVerdict ==
    last # NoObservation =>
        /\ ~LastRecord["scam_detected"] =>
              /\ ~last.engine_called
              /\ last.response_message = generate_initial_response(last.message)
              /\ last.strategy = "initial_engagement"
        /\ LastRecord["scam_detected"] =>
              /\ last.engine_called
              /\ FromEngine(LastRecord, LastRecord["scam_type"])
        /\ LastRecord["extracted_intelligence"] = extract(LastRecord["messages"])
        /\ LastRecord["extracted_intelligence"]["extraction_metadata"].total_messages_analyzed
              = Len(LastRecord["messages"])

\* A conversation answered neutrally, then confirmed, then continued with a
\* message that is no scam by itself
C18_Witness ==
    /\ last.conversation_id = "c1"
    /\ Len(Record("c1")["messages"]) = 6
    /\ Record("c1")["messages"][2].strategy = "initial_engagement"
    /\ Record("c1")["messages"][3].content = "Please send the OTP"
    /\ last.message = "hello how are you"
    /\ last.engine_called
    /\ Record("c1")["scam_type"] = "payment_scam"

\* conversation.get('confidence', 0.0), as the response reports it
ReportedConfidence(c) == Get(c, "confidence", 0)

\* C19: after a turn that leaves the record unconfirmed, the record's
\* confidence is the confidence the scorer computed on that turn.
C19_ConfidenceIsLastComputed ==
    last # NoObservation /\ ~LastRecord["scam_detected"] =>
        ReportedConfidence(LastRecord)
            = analyze(last.message, BeforeReply(LastRecord)).confidence

\* The list p is the beginning of the list q, entry by entry
IsPrefix(p, q) == Len(p) <= Len(q) /\ SubSeq(q, 1, Len(p)) = p

\* C20: the messages list a record has in one state is a prefix of the list
\* it has in every later state: entries are added at the end and never
\* changed, moved or removed.
C20_MessagesAppendOnly ==
    [][\A id \in ConvIds :
          Bound(id) =>
              /\ conversation_store'[id] # NoObject
              /\ IsPrefix(Record(id)["messages"],
                          heap'[conversation_store'[id]]["messages"])]_vars

\* A record that has taken every request of the run, in the order sent
C20_Witness ==
    /\ Len(requests) = MaxRequests
    /\ Bound("c1")
    /\ Len(Record("c1")["messages"]) = 2 * MaxRequests
    /\ \A k \in 1..MaxRequests :
          /\ Record("c1")["messages"][2 * k - 1] =
                [role |-> "scammer", content |-> requests[k].message]
          /\ Record("c1")["messages"][2 * k].role = "agent"
    /\ requests[1].message # requests[2].message

----------------------------------------------------------------------------
(* The engine's first call *)

----------------------------------------------------------------------------
(* Properties of handle_message with failing requests *)

\* C27: a request that fails after its message was accepted leaves the
\* record as it was before the request; in particular the record does not
\* hold the request's scammer message and the turn_count increment.
C27_FailedRequestLeavesRecordUnchanged ==
    (fn.phase = "returned" /\ fn.status = 500) =>
        /\ Record(fn.conversation_id) = fn.before
        /\ Record(fn.conversation_id)["turn_count"] = fn.before["turn_count"]
        /\ Len(Record(fn.conversation_id)["messages"]) = Len(fn.before["messages"])

\* The number of entries of a role in a messages list
RoleCount(messages, role) == Len(SelectSeq(messages, LAMBDA m : m.role = role))

\* C28: after a request that was processed successfully, the record's
\* turn_count is the number of its scammer messages and the number of its
\* agent messages, and the list alternates scammer, agent from a scammer
\* message on, so that its length is twice the turn_count.
C28_TurnsAlternate ==
    (fn.phase = "returned" /\ fn.status = 200) =>
        LET Alternating(c) ==
               /\ c["turn_count"] = RoleCount(c["messages"], "scammer")
               /\ c["turn_count"] = RoleCount(c["messages"], "agent")
               /\ Len(c["messages"]) = 2 * c["turn_count"]
               /\ \A k \in DOMAIN c["messages"] :
                     c["messages"][k].role = (IF k % 2 = 1 THEN "scammer" ELSE "agent")
        IN  Alternating(Record(fn.conversation_id))

\* The second successful request on one id, while a request on the other id
\* has failed
C28_Witness ==
    /\ fn.phase = "returned"
    /\ fn.status = 200
    /\ Record(fn.conversation_id)["turn_count"] = 2
    /\ Len(Record(fn.conversation_id)["messages"]) = 4
    /\ \E id \in ConvIds :
          /\ id # fn.conversation_id
          /\ Bound(id)
          /\ ExtractRaises(Record(id)["messages"])

----------------------------------------------------------------------------
(* Properties of analyze on its own *)

\* The last n scammer messages of a history
LastScammerMessages(conversation_history, n) ==
    LET Last(said) == SubSeq(said, Max(1, Len(said) - n + 1), Len(said))
    IN  Last(SelectSeq(conversation_history, LAMBDA m : m.role = "scammer"))

\* The credential keywords a message holds
CredentialKeywords(message) ==
    {credential_requests[k] : k \in {j \in DOMAIN credential_requests :
                                        Contains(lower(message), credential_requests[j])}}

\* The distinct credential keywords a list of messages holds between them
DistinctCredentials(said) ==
    UNION {CredentialKeywords(said[k].content) : k \in DOMAIN said}

ProgressiveHarvesting == Indicator("Progressive credential harvesting detected", 0)

\* C24: the scorer adds the flat 0.25 and its indicator exactly when the last
\* three scammer messages of the history hold at least two distinct
\* credential keywords between them.
C24_ProgressiveHarvestingSignal ==
    fn.phase = "done" =>
        LET progressive == Cardinality(DistinctCredentials(LastScammerMessages(fn.history, 3))) >= 2
        IN  /\ (\E k \in DOMAIN fn.result.indicators : fn.result.indicators[k] = ProgressiveHarvesting)
                  <=> progressive
            /\ ScoreParts(fn.message, fn.history).score
                  = ScoreParts(fn.message, <<>>).score + (IF progressive THEN 250 ELSE 0)

\* The patterns of a category that match the message
MatchingPatterns(entry, message) ==
    {j \in 1..Len(entry.patterns) : PatternMatches(entry.patterns[j], lower(message))}

\* The positions in the category table of the categories with a matching
\* pattern
MatchedCategories(message) ==
    {k \in 1..Len(scam_patterns) : MatchingPatterns(scam_patterns[k], message) # {}}

\* How often a category is among the detected ones
TimesDetected(types, scam_type) == Cardinality({k \in DOMAIN types : types[k] = scam_type})

\* The sum of the signals other than the category patterns, each under its
\* own cap, in thousandths
OtherSignals(message, progressive) ==
    LET m == lower(message)
        Sum(urgency, credential, financial, phrases) ==
              (IF urgency * 100 < 300 THEN urgency * 100 ELSE 300)
            + (IF credential * 150 < 400 THEN credential * 150 ELSE 400)
            + (IF financial * 80 < 250 THEN financial * 80 ELSE 250)
            + (IF HasScheme(m) THEN 200 ELSE 0)
            + (IF HasPhoneNumber(message) THEN 100 ELSE 0)
            + (IF phrases * 120 < 350 THEN phrases * 120 ELSE 350)
            + (IF progressive THEN 250 ELSE 0)
    IN  Sum(CountIn(m, urgency_keywords), CountIn(m, credential_requests),
            CountIn(m, financial_indicators), CountIn(m, scam_phrases))

\* The progression signal fired in this result
Fired(result) == \E k \in DOMAIN result.indicators : result.indicators[k] = ProgressiveHarvesting

\* C25: a category adds 0.15 once however many of its patterns match, each
\* category with a matching pattern adds its own 0.15 whatever the others do,
\* and the returned category is the first one in table order with a matching
\* pattern, or unknown when there is none.
C25_CategoryCountedOnceFirstWins ==
    fn.phase = "done" =>
        LET First(matched) ==
               IF matched = {} THEN "unknown"
               ELSE scam_patterns[CHOOSE k \in matched : \A j \in matched : k <= j].scam_type
            Claimed(matched) ==
               /\ \A k \in 1..Len(scam_patterns) :
                     TimesDetected(fn.result.all_detected_types, scam_patterns[k].scam_type)
                        = (IF k \in matched THEN 1 ELSE 0)
               /\ ScoreParts(fn.message, fn.history).score
                     = 150 * Cardinality(matched) + OtherSignals(fn.message, Fired(fn.result))
               /\ fn.result.scam_type = First(matched)
        IN  Claimed(MatchedCategories(fn.message))

\* Two patterns of the first category and one of the third match: two
\* increments, and the first category is returned
C25_Witness ==
    /\ fn.phase = "done"
    /\ fn.message = KycMessage
    /\ Cardinality(MatchingPatterns(scam_patterns[1], fn.message)) = 2
    /\ MatchedCategories(fn.message) = {1, 3}
    /\ fn.result.all_detected_types = <<"financial_fraud", "phishing">>
    /\ fn.result.scam_type = "financial_fraud"

\* C26: the confidence is min(1, 0.15 x matched categories + min(0.1 x
\* urgency hits, 0.3) + min(0.15 x credential hits, 0.4) + min(0.08 x
\* financial hits, 0.25) + 0.2 for a URL + 0.1 for a phone number + min(0.12 x
\* scam-phrase hits, 0.35) + 0.25 when the progression signal fires), in
\* thousandths: each signal is capped on its own before the sum is clamped.
C26_ConfidenceFormula ==
    fn.phase = "done" =>
        LET Clamped(sum) == IF sum < 1000 THEN sum ELSE 1000
        IN  fn.result.confidence =
               Clamped(150 * Cardinality(MatchedCategories(fn.message))
                       + OtherSignals(fn.message, Fired(fn.result)))

\* Four credential keywords count as 0.4, not 0.6, and the sum stays under
\* the clamp
C26_Witness ==
    /\ fn.phase = "done"
    /\ fn.message = "share otp, pin, password and cvv"
    /\ CountIn(lower(fn.message), credential_requests) = 4
    /\ ~Fired(fn.result)
    /\ fn.result.confidence = 400

----------------------------------------------------------------------------
(* Properties of generate_response on its own *)

\* The results generate_response can give that differ from r in the tone
\* prefix at most and carry none
Unprefixed(r, scam_type) ==
    {u \in generate_response(fn.message, HistoryOfTurns(fn.turn_count, fn.message), scam_type) :
        /\ u.message.prefix = ""
        /\ u.message.phrasing = r.message.phrasing
        /\ u.strategy = r.strategy
        /\ u.stage = r.stage}

\* C17: two calls with the same turn count and message return the same
\* stage, whatever the category and whatever the random draws (perturbation,
\* tone prefix, phrasing); a reply with a tone prefix carries the strategy and
\* stage of the same reply without it.
C17_StageIndependentOfDraws ==
    fn.phase = "done" =>
        /\ fn.first.stage = fn.second.stage
        /\ Unprefixed(fn.first, fn.scam_type) # {}
        /\ Unprefixed(fn.second, fn.other_type) # {}

\* One call is perturbed and prefixed, the other is neither
C17_Witness ==
    /\ fn.phase = "done"
    /\ fn.turn_count >= HumanBehaviorTurn
    /\ fn.first.strategy # fn.first.selected
    /\ fn.first.message.prefix # ""
    /\ fn.second.strategy = fn.second.selected
    /\ fn.second.message.prefix = ""
    /\ fn.first.stage = "compliance"

\* The phrasing sets that belong to one category alone
CategoryPhrasings ==
    {"confusion:lottery_prize", "confusion:banking_kyc", "interest:lottery_prize",
     "interest:job_offer", "interest:upi_payment", "compliance:lottery_prize"}

\* The phrasing sets a strategy's generator picks from whatever the category
StrategyPhrasings(strategy) ==
    {Template(strategy)} \cup
    CASE strategy = "initial_confusion" -> {"confusion:link", "confusion:amount"}
      [] strategy = "show_interest" -> {"interest:urgency"}
      [] strategy = "request_details" ->
            {"details:otp", "details:account", "details:link", "details:phone"}
      [] strategy = "feign_technical_difficulty" -> {"technical:link"}
      [] strategy = "gradual_compliance" ->
            {"compliance:otp", "compliance:account", "compliance:payment"}
      [] strategy = "ask_for_credentials" ->
            {"credentials:otp", "credentials:card", "credentials:bank"}
      [] OTHER -> {}

\* A category scam_behaviors has no entry for
Unconfigured(scam_type) == emotional_state(scam_type) = ""

\* C21 as stated: called with a category that has nothing configured, the
\* reply text is drawn from the generic request_details phrasing set.
C21_UnconfiguredCategoryFallsBackToRequestDetails ==
    (fn.phase = "done" /\ Unconfigured(fn.scam_type)) =>
        fn.first.message.phrasing = Template("request_details")

\* C21 amended: called with a category that has nothing configured, the reply
\* is rendered by the generator of the emitted strategy from that strategy's
\* own phrasing sets, never from a set of one category and never with a tone
\* prefix; the generic request_details set is used only when request_details
\* is the emitted strategy.
C21_UnconfiguredCategoryUsesStrategyPhrasing ==
    (fn.phase = "done" /\ Unconfigured(fn.scam_type)) =>
        /\ fn.first.message.prefix = ""
        /\ fn.first.message.phrasing \in StrategyPhrasings(fn.first.strategy)
        /\ fn.first.message.phrasing \notin CategoryPhrasings
        /\ fn.first.message.phrasing = Template("request_details")
              => fn.first.strategy = "request_details"

\* A category with nothing configured gets the generic confusion phrasing
\* after two agent replies
C21_Witness ==
    /\ fn.phase = "done"
    /\ fn.scam_type = "financial_fraud"
    /\ fn.other_type = "unknown"
    /\ fn.message = "hello how are you"
    /\ fn.turn_count = 2
    /\ fn.first.strategy = "initial_confusion"
    /\ fn.first.message = Text(Template("initial_confusion"), "")


\* The strategies the perturbation puts in place of the selected one
HumanBehaviors == {"human_confusion", "irrelevant_questions"}

\* The perturbation has replaced the strategy of result r
Perturbed(r) == r.strategy # r.selected

\* C23: the emitted strategy differs from the rule-selected one only when the
\* turn count is at least 3, and is then human_confusion or
\* irrelevant_questions; below 3 the emitted strategy is the rule-selected
\* one. It holds for the engine's own turn count (agent replies so far) and
\* for the number of scammer messages of the transcript.
C23_PerturbationOnlyFromThirdTurn ==
    fn.phase = "done" =>
        \A r \in {fn.first, fn.second} :
            LET scammer_turns == ScammerCount(HistoryOfTurns(fn.turn_count, fn.message))
            IN  /\ Perturbed(r) => /\ r.turn_count >= 3
                                   /\ scammer_turns >= 3
                                   /\ r.strategy \in HumanBehaviors
                /\ r.turn_count < 3 => r.strategy = r.selected
                /\ scammer_turns < 3 => r.strategy = r.selected

\* At the third agent reply one call is perturbed and the other is not
C23_Witness ==
    /\ fn.phase = "done"
    /\ fn.turn_count = 3
    /\ fn.first.turn_count = 3
    /\ fn.first.strategy = "irrelevant_questions"
    /\ fn.first.selected = "show_interest"
    /\ fn.second.strategy = fn.second.selected

----------------------------------------------------------------------------
(* Properties of _select_strategy on its own *)

\* The cues of the four overrides, read in the lower-cased message
LinkCue(message) == ContainsAny(lower(message), <<"http", "link", "click">>)
CredentialCue(message) == ContainsAny(lower(message), <<"otp", "code", "pin", "cvv", "password">>)
IdentifierCue(message) == ContainsAny(lower(message), <<"account number", "ifsc", "upi id", "paytm">>)
UrgencyCue(message) ==
    ContainsAny(lower(message), <<"urgent", "immediately", "now", "expire", "last chance">>)

\* The stage table
StageDefault(stage) ==
    IF stage \in {"initial_contact", "confusion"} THEN "initial_confusion"
    ELSE IF stage = "interest" THEN "show_interest"
    ELSE IF stage = "verification" THEN "request_details"
    ELSE IF stage = "compliance" THEN "gradual_compliance"
    ELSE "ask_for_credentials"

\* The four overrides as an ordered rule list
OverrideRules(stage, message, turn_count) ==
    << [applies |-> LinkCue(message) /\ turn_count >= 3,
        gives |-> "feign_technical_difficulty"],
       [applies |-> CredentialCue(message),
        gives |-> IF stage \in {"compliance", "extraction"}
                  THEN "ask_for_credentials" ELSE "request_details"],
       [applies |-> IdentifierCue(message),
        gives |-> "request_details"],
       [applies |-> UrgencyCue(message) /\ stage \in {"interest", "compliance", "extraction"},
        gives |-> IF stage = "interest" THEN "show_interest" ELSE "gradual_compliance"] >>

\* The rules of the list that apply
Applying(rules) == {k \in DOMAIN rules : rules[k].applies}

FirstApplying(rules) == CHOOSE k \in Applying(rules) : \A j \in Applying(rules) : k <= j

\* C22: the selected strategy is what the first applying override gives, the
\* overrides taken in the order link cue, credential request, account
\* identifiers, urgency; when none applies it is the stage table's default.
C22_OverridesInPriorityOrder ==
    fn.phase = "done" =>
        LET Selected(rules) ==
                IF Applying(rules) = {} THEN StageDefault(fn.stage)
                ELSE rules[FirstApplying(rules)].gives
        IN  fn.strategy = Selected(OverrideRules(fn.stage, fn.message, fn.turn_count))

\* A message with a link cue, a credential request and urgency language at
\* once: the link override wins from the third turn on
C22_Witness ==
    /\ fn.phase = "done"
    /\ fn.message = "urgent: account will be blocked, send otp pin cvv now http://x.tk 9876543210"
    /\ Applying(OverrideRules(fn.stage, fn.message, fn.turn_count)) = {1, 2, 4}
    /\ fn.stage = "compliance"
    /\ fn.strategy = "feign_technical_difficulty"

\* C30: from turn count 4 on, a message that holds otp, pin, cvv or password
\* and no link cue (http, link, click) is given the stage extraction and the
\* rule-selected strategy ask_for_credentials, never request_details.
C30_CredentialRequestSelectsAskForCredentials ==
    (/\ fn.phase = "done"
     /\ fn.turn_count >= 4
     /\ ContainsAny(lower(fn.message), <<"otp", "pin", "cvv", "password">>)
     /\ ~LinkCue(fn.message)) =>
        /\ fn.determined = "extraction"
        /\ fn.selected = "ask_for_credentials"
        /\ fn.selected # "request_details"

\* At turn count 4 the turn alone would give verification, whose credential
\* override is request_details
C30_Witness ==
    /\ fn.phase = "done"
    /\ fn.turn_count = 4
    /\ fn.message = "Please send the OTP"
    /\ fn.stage = "verification"
    /\ fn.strategy = "request_details"
    /\ fn.determined = "extraction"
    /\ fn.selected = "ask_for_credentials"
====
